---- MODULE Spec2Model ----
(***************************************************************************)
(* The O*NET occupation warehouse ETL (src/etl): the source readers of     *)
(* extract.py, the record cleaners of transform.py, the staging loaders    *)
(* and dimension/fact promoters of load.py, the validators of validate.py  *)
(* and the pipeline run() of run_pipeline.py.                              *)
(*                                                                         *)
(* Text is a sequence of one-character strings, so that strip(),           *)
(* normalize_space(), upper() and the SOC pattern are computed and not     *)
(* assumed.  Python's None and SQL NULL are the value None.  A table is    *)
(* the sequence of its rows in rowid order; a unique key is kept by the    *)
(* upsert operators, never by the representation.  Of the twelve rating    *)
(* columns the model keeps the three key columns, data_value and the two   *)
(* confidence bounds: n and standard_error go through the same _to_float   *)
(* path as data_value, and the flags, the date and domain_source take no   *)
(* part in any decision of the code.                                       *)
(***************************************************************************)
EXTENDS Integers, Sequences, FiniteSets, TLC

VARIABLES
  pc, runs, ret, prev_store,
  sources, raw_records, skills, knowledge, abilities, scales_ref, anchors, mg_csv,
  records, skills_clean, skills_invalid, knowledge_clean, knowledge_invalid,
  abilities_clean, abilities_invalid,
  stg_occupation_data, stg_skills, stg_knowledge, stg_abilities,
  stg_invalid_ska, stg_level_scale_anchors, stg_scales_reference,
  dim_scale, dim_major_group, dim_occupation, dim_element, dim_element_scale,
  fact_occupation_element_rating,
  ska_records, ska_domain, ska_valid, ska_invalid,
  last_call, s_errors

ctlV == <<pc, runs, ret, prev_store, last_call, s_errors>>
inputsV == <<sources, raw_records, skills, knowledge, abilities, scales_ref, anchors,
             mg_csv>>
cleanV == <<records, skills_clean, skills_invalid, knowledge_clean, knowledge_invalid,
            abilities_clean, abilities_invalid>>
stgV == <<stg_occupation_data, stg_skills, stg_knowledge, stg_abilities,
          stg_invalid_ska, stg_level_scale_anchors, stg_scales_reference>>
dimV == <<dim_scale, dim_major_group, dim_occupation, dim_element, dim_element_scale,
          fact_occupation_element_rating>>
skaV == <<ska_records, ska_domain, ska_valid, ska_invalid>>
vars == <<ctlV, inputsV, cleanV, stgV, dimV, skaV>>

----------------------------------------------------------------------------
(* Values and text                                                         *)

\* Python None / SQL NULL: a one-element sequence no text can equal.
None == <<"<None>">>

\* float('nan'), which float() returns for "+nan" and "-nan".
NaN == <<"<nan>">>

Whitespace == {" ", "\t"}

Digits == {"0", "1", "2", "3", "4", "5", "6", "7", "8", "9"}

RECURSIVE LStrip(_)
LStrip(s) ==
  IF s = <<>> THEN <<>>
  ELSE IF Head(s) \in Whitespace THEN LStrip(Tail(s)) ELSE s

RECURSIVE RStrip(_)
RStrip(s) ==
  IF s = <<>> THEN <<>>
  ELSE IF s[Len(s)] \in Whitespace THEN RStrip(SubSeq(s, 1, Len(s) - 1)) ELSE s

\* str.strip()
Strip(s) == RStrip(LStrip(s))

\* re.sub(r"\s+", " ", s): every run of whitespace becomes one space.
RECURSIVE CollapseSpace(_)
CollapseSpace(s) ==
  IF s = <<>> THEN <<>>
  ELSE IF Head(s) \in Whitespace
       THEN <<" ">> \o CollapseSpace(LStrip(Tail(s)))
       ELSE <<Head(s)>> \o CollapseSpace(Tail(s))

\* normalize_space(text): (text or "").strip(), then the whitespace collapse.
normalize_space(text) ==
  CollapseSpace(Strip(IF text = None THEN <<>> ELSE text))

\* str(value): None prints as the four letters "None".
Str(value) == IF value = None THEN <<"N", "o", "n", "e">> ELSE value

\* str(value or ""): None and the empty text are both falsy.
StrOrEmpty(value) == IF value = None THEN <<>> ELSE value

UpperChar(c) ==
  CASE c = "a" -> "A" [] c = "i" -> "I" [] c = "l" -> "L" [] c = "m" -> "M"
    [] c = "n" -> "N" [] c = "v" -> "V" [] c = "x" -> "X" [] c = "e" -> "E"
    [] c = "o" -> "O" [] OTHER -> c

\* str.upper()
Upper(s) == [i \in 1..Len(s) |-> UpperChar(s[i])]

\* The text "unavailable", the sentinel written for an absent text field.
Unavailable == <<"u", "n", "a", "v", "a", "i", "l", "a", "b", "l", "e">>

----------------------------------------------------------------------------
(* transform.py: occupation cleaning                                       *)

\* code.split("-")[0]: the text before the first "-".
RECURSIVE BeforeDash(_)
BeforeDash(s) ==
  IF s = <<>> THEN <<>>
  ELSE IF Head(s) = "-" THEN <<>> ELSE <<Head(s)>> \o BeforeDash(Tail(s))

HasDash(s) == \E i \in 1..Len(s) : s[i] = "-"

\* text[:2]
Take2(s) == SubSeq(s, 1, IF Len(s) < 2 THEN Len(s) ELSE 2)

\* transform.py line 24 and line 27.
major_group_code(code) ==
  LET mg == IF HasDash(code) /\ Len(code) >= 2 THEN Take2(BeforeDash(code)) ELSE None
  IN IF mg = None \/ mg = <<>> THEN Unavailable ELSE mg

\* The loop of clean_occupation_records over the rest of the input, with the
\* codes seen so far and the rows kept so far.
RECURSIVE clean_occupation_loop(_, _, _)
clean_occupation_loop(rest, seen, clean) ==
  IF rest = <<>> THEN clean
  ELSE LET r == Head(rest)
           code == normalize_space(r.onetsoc_code)
           title == normalize_space(r.title)
           desc == normalize_space(r.description)
       IN IF code = <<>> \/ title = <<>>
          THEN clean_occupation_loop(Tail(rest), seen, clean)
          ELSE IF code \in seen
          THEN clean_occupation_loop(Tail(rest), seen, clean)
          ELSE clean_occupation_loop(Tail(rest), seen \cup {code},
                 Append(clean, [onetsoc_code |-> code,
                                title |-> title,
                                description |-> IF desc = <<>> THEN Unavailable ELSE desc,
                                major_group_code |-> major_group_code(code)]))

\* A cleaner that marks the code as seen before it looks at the title.
clean_occupation_records_seen_first(recs) ==
  LET RECURSIVE loop(_, _, _)
      loop(rest, seen, clean) ==
        IF rest = <<>> THEN clean
        ELSE LET r == Head(rest)
                 code == normalize_space(r.onetsoc_code)
                 title == normalize_space(r.title)
                 desc == normalize_space(r.description)
             IN IF code = <<>> \/ code \in seen
                THEN loop(Tail(rest), seen, clean)
                ELSE IF title = <<>>
                THEN loop(Tail(rest), seen \cup {code}, clean)
                ELSE loop(Tail(rest), seen \cup {code},
                       Append(clean, [onetsoc_code |-> code,
                                      title |-> title,
                                      description |-> IF desc = <<>> THEN Unavailable ELSE desc,
                                      major_group_code |-> major_group_code(code)]))
  IN loop(recs, {}, <<>>)

clean_occupation_records(recs) == clean_occupation_loop(recs, {}, <<>>)

----------------------------------------------------------------------------
(* transform.py: rating (skills / knowledge / abilities) cleaning          *)

\* _ALLOWED_SCALES
ALLOWED_SCALES == {<<"I", "M">>, <<"L", "V">>}

\* _is_valid_soc: the whole text matches ^\d{2}-\d{4}\.\d{2}$ .
is_valid_soc(code) ==
  /\ Len(code) = 10
  /\ \A i \in {1, 2, 4, 5, 6, 7, 9, 10} : code[i] \in Digits
  /\ code[3] = "-"
  /\ code[8] = "."

\* A float value n.
Num(n) == <<"f", n>>

IsNum(v) == Len(v) = 2 /\ v[1] = "f"

DigitVal(c) ==
  CASE c = "0" -> 0 [] c = "1" -> 1 [] c = "2" -> 2 [] c = "3" -> 3 [] c = "4" -> 4
    [] c = "5" -> 5 [] c = "6" -> 6 [] c = "7" -> 7 [] c = "8" -> 8 [] c = "9" -> 9

RECURSIVE ParseNat(_)
ParseNat(s) ==
  IF s = <<>> THEN 0
  ELSE 10 * ParseNat(SubSeq(s, 1, Len(s) - 1)) + DigitVal(s[Len(s)])

\* float(s) inside the try of _to_float, on the literals the model feeds it:
\* an optionally signed integer literal, an optionally signed "nan" in any
\* case, and anything else, which raises ValueError and gives None.
FloatOf(s) ==
  LET signed == s # <<>> /\ Head(s) \in {"+", "-"}
      body == IF signed THEN Tail(s) ELSE s
  IN IF body # <<>> /\ \A i \in 1..Len(body) : body[i] \in Digits
     THEN Num(IF signed /\ Head(s) = "-" THEN 0 - ParseNat(body) ELSE ParseNat(body))
     ELSE IF Upper(body) = <<"N", "A", "N">> THEN NaN
     ELSE None

\* _to_float
to_float(value) ==
  IF value = None THEN None
  ELSE LET s == Strip(Str(value))
       IN IF s = <<>> \/ Upper(s) = <<"N", "A", "N">> THEN None ELSE FloatOf(s)

\* Python's a > b on floats: false as soon as one side is NaN.
FloatGT(a, b) == IsNum(a) /\ IsNum(b) /\ a[2] > b[2]

\* Python's a <= b on floats: false as soon as one side is NaN.
FloatLE(a, b) == IsNum(a) /\ IsNum(b) /\ a[2] <= b[2]

\* domain.upper()
DomainTag(domain) ==
  CASE domain = "skill" -> "SKILL"
    [] domain = "knowledge" -> "KNOWLEDGE"
    [] domain = "ability" -> "ABILITY"

\* A cleaner that compares the scale without upper-casing it.
clean_ska_row_no_upper(r, domain) ==
  LET code == normalize_space(Str(r.onetsoc_code))
      elem == normalize_space(Str(r.element_id))
      scale == normalize_space(Str(r.scale_id))
  IN IF code = <<>> \/ elem = <<>> \/ scale \notin ALLOWED_SCALES
     THEN <<>>
     ELSE << [onetsoc_code |-> code,
              element_id |-> elem,
              scale_id |-> scale,
              data_value |-> to_float(r.data_value),
              lower_ci_bound |-> to_float(r.lower_ci_bound),
              upper_ci_bound |-> to_float(r.upper_ci_bound),
              domain |-> DomainTag(domain)] >>

\* The body of the loop of clean_ska_records for one raw row: the empty
\* list when the row is skipped (line 115), else the one cleaned record.
clean_ska_row(r, domain) ==
  LET code == normalize_space(Str(r.onetsoc_code))
      elem == normalize_space(Str(r.element_id))
      scale == Upper(normalize_space(Str(r.scale_id)))
      dv == to_float(r.data_value)
      lcb == to_float(r.lower_ci_bound)
      ucb == to_float(r.upper_ci_bound)
      swap == lcb # None /\ ucb # None /\ FloatGT(lcb, ucb)
  IN IF code = <<>> \/ elem = <<>> \/ scale \notin ALLOWED_SCALES
     THEN <<>>
     ELSE << [onetsoc_code |-> code,
              element_id |-> elem,
              scale_id |-> scale,
              data_value |-> dv,
              lower_ci_bound |-> IF swap THEN ucb ELSE lcb,
              upper_ci_bound |-> IF swap THEN lcb ELSE ucb,
              domain |-> DomainTag(domain)] >>

RECURSIVE clean_ska_records(_, _)
clean_ska_records(recs, domain) ==
  IF recs = <<>> THEN <<>>
  ELSE clean_ska_row(Head(recs), domain) \o clean_ska_records(Tail(recs), domain)

\* r2 = dict(r); r2["error_reason"] = reason; r2["domain"] = domain.upper()
InvalidRow(r, reason, domain) ==
  [onetsoc_code |-> r.onetsoc_code,
   element_id |-> r.element_id,
   scale_id |-> r.scale_id,
   data_value |-> r.data_value,
   lower_ci_bound |-> r.lower_ci_bound,
   upper_ci_bound |-> r.upper_ci_bound,
   error_reason |-> reason,
   domain |-> DomainTag(domain)]

\* The checks with the element check ahead of the SOC format check.
ska_check_elem_first(r) ==
  LET code_raw == Strip(StrOrEmpty(r.onetsoc_code))
      elem_raw == Strip(StrOrEmpty(r.element_id))
      scale_raw == Upper(Strip(StrOrEmpty(r.scale_id)))
  IN IF code_raw = <<>> THEN "missing_onetsoc_code"
     ELSE IF elem_raw = <<>> THEN "missing_element_id"
     ELSE IF ~is_valid_soc(code_raw) THEN "invalid_soc_format"
     ELSE IF scale_raw \notin ALLOWED_SCALES THEN "invalid_scale_id"
     ELSE "ok"

\* The structural checks of split_and_clean_ska_records on one raw row, in
\* the order of the code: the reason of the first check that fails, "ok" when
\* all four pass.
ska_check(r) ==
  LET code_raw == Strip(StrOrEmpty(r.onetsoc_code))
      elem_raw == Strip(StrOrEmpty(r.element_id))
      scale_raw == Upper(Strip(StrOrEmpty(r.scale_id)))
  IN IF code_raw = <<>> THEN "missing_onetsoc_code"
     ELSE IF ~is_valid_soc(code_raw) THEN "invalid_soc_format"
     ELSE IF elem_raw = <<>> THEN "missing_element_id"
     ELSE IF scale_raw \notin ALLOWED_SCALES THEN "invalid_scale_id"
     ELSE "ok"

\* The loop of split_and_clean_ska_records over the rest of the input.
RECURSIVE split_loop(_, _, _, _)
split_loop(rest, domain, valid, invalid) ==
  IF rest = <<>> THEN [valid |-> valid, invalid |-> invalid]
  ELSE LET r == Head(rest)
           reason == ska_check(r)
           cleaned == clean_ska_records(<<r>>, domain)
       IN IF reason # "ok"
          THEN split_loop(Tail(rest), domain, valid,
                          Append(invalid, InvalidRow(r, reason, domain)))
          ELSE IF cleaned = <<>>
          THEN split_loop(Tail(rest), domain, valid,
                          Append(invalid, InvalidRow(r, "cleaning_failed", domain)))
          ELSE split_loop(Tail(rest), domain, valid \o cleaned, invalid)

\* A splitter that drops a failing row instead of keeping it for diagnostics.
split_and_clean_ska_records_drop(recs, domain) ==
  [valid |-> split_loop(recs, domain, <<>>, <<>>).valid, invalid |-> <<>>]

\* A splitter that lets every row through to the cleaner.
split_and_clean_ska_records_unchecked(recs, domain) ==
  [valid |-> clean_ska_records(recs, domain), invalid |-> <<>>]

split_and_clean_ska_records(recs, domain) == split_loop(recs, domain, <<>>, <<>>)

----------------------------------------------------------------------------
(* load.py: tables, staging loaders                                        *)

\* The elements of a finite set, one after the other in a fixed order.
RECURSIVE SetToSeq(_)
SetToSeq(S) ==
  IF S = {} THEN <<>>
  ELSE LET x == CHOOSE y \in S : TRUE IN <<x>> \o SetToSeq(S \ {x})

Range(t) == {t[i] : i \in 1..Len(t)}

\* sqlite3 binds a Python float NaN as NULL.
Bind(v) == IF v = NaN THEN None ELSE v

\* The named parameters of the INSERT of load_stg_occupation.
StagedOccupation(r) ==
  [onetsoc_code |-> r.onetsoc_code, title |-> r.title, description |-> r.description]

\* The named parameters of the INSERT of load_stg_skills / _knowledge / _abilities.
StagedRating(r) ==
  [onetsoc_code |-> r.onetsoc_code,
   element_id |-> r.element_id,
   scale_id |-> r.scale_id,
   data_value |-> Bind(r.data_value),
   lower_ci_bound |-> Bind(r.lower_ci_bound),
   upper_ci_bound |-> Bind(r.upper_ci_bound)]

\* Each loader gives the table after the call and the value returned.
load_stg_occupation(table, recs) ==
  [table |-> [i \in 1..Len(recs) |-> StagedOccupation(recs[i])], ret |-> Len(recs)]

load_stg_skills(table, recs) ==
  IF recs = <<>> THEN [table |-> table, ret |-> 0]
  ELSE [table |-> [i \in 1..Len(recs) |-> StagedRating(recs[i])], ret |-> Len(recs)]

load_stg_knowledge(table, recs) ==
  IF recs = <<>> THEN [table |-> table, ret |-> 0]
  ELSE [table |-> [i \in 1..Len(recs) |-> StagedRating(recs[i])], ret |-> Len(recs)]

load_stg_abilities(table, recs) ==
  IF recs = <<>> THEN [table |-> table, ret |-> 0]
  ELSE [table |-> [i \in 1..Len(recs) |-> StagedRating(recs[i])], ret |-> Len(recs)]

load_stg_level_scale_anchors(table, recs) ==
  IF recs = <<>> THEN [table |-> table, ret |-> 0]
  ELSE [table |-> recs, ret |-> Len(recs)]

load_stg_scales_reference(table, recs) ==
  IF recs = <<>> THEN [table |-> table, ret |-> 0]
  ELSE [table |-> recs, ret |-> Len(recs)]

\* The DELETE comes first; every record already carries the fourteen columns,
\* a missing one as None.
load_stg_invalid_ska(table, recs) ==
  IF recs = <<>> THEN [table |-> <<>>, ret |-> 0]
  ELSE [table |-> recs, ret |-> Len(recs)]

----------------------------------------------------------------------------
(* load.py: dimension and fact promotion                                   *)

SetMin(S) == CHOOSE x \in S : \A y \in S : x <= y

SetMax(S) == CHOOSE x \in S : \A y \in S : x >= y

\* DELETE FROM dim_scale, then one row per (scale_id, scale_name) group of
\* the staged reference rows whose scale_id is 'IM' or 'LV'.
load_dim_scale_from_staging(stg) ==
  LET kept == SelectSeq(stg, LAMBDA r : r.scale_id \in ALLOWED_SCALES)
      groups == SetToSeq({<<r.scale_id, r.scale_name>> : r \in Range(kept)})
      Of(g) == {r \in Range(kept) : r.scale_id = g[1] /\ r.scale_name = g[2]}
      table == [i \in 1..Len(groups) |->
                 [scale_id |-> groups[i][1],
                  name |-> groups[i][2],
                  min_value |-> SetMin({r.minimum : r \in Of(groups[i])}),
                  max_value |-> SetMax({r.maximum : r \in Of(groups[i])})]]
  IN [table |-> table, ret |-> Len(table)]

\* The rows of load_dim_major_group read from the lookup file.
MajorGroupRows(csv) ==
  LET usable == SelectSeq(csv, LAMBDA r : Len(Strip(StrOrEmpty(r.code_full))) >= 2
                                          /\ Strip(StrOrEmpty(r.name)) # <<>>)
  IN [i \in 1..Len(usable) |->
        [major_group_code |-> Take2(Strip(StrOrEmpty(usable[i].code_full))),
         code_full |-> Strip(StrOrEmpty(usable[i].code_full)),
         name |-> Strip(StrOrEmpty(usable[i].name))]]

\* INSERT ... ON CONFLICT(major_group_code) DO UPDATE for one row: the row
\* with the key is updated in place, else the row is appended.
UpsertMajorGroup(dim, row) ==
  IF \E i \in 1..Len(dim) : dim[i].major_group_code = row.major_group_code
  THEN [i \in 1..Len(dim) |->
          IF dim[i].major_group_code = row.major_group_code THEN row ELSE dim[i]]
  ELSE Append(dim, row)

RECURSIVE UpsertMajorGroups(_, _)
UpsertMajorGroups(dim, rows) ==
  IF rows = <<>> THEN dim
  ELSE UpsertMajorGroups(UpsertMajorGroup(dim, Head(rows)), Tail(rows))

\* The lookup file: whether os.path.exists finds it, and its rows.
AbsentFile == [exists |-> FALSE, rows |-> <<>>]

File(rows) == [exists |-> TRUE, rows |-> rows]

load_dim_major_group(dim, csv) ==
  IF ~csv.exists THEN [table |-> dim, ret |-> 0]
  ELSE [table |-> UpsertMajorGroups(dim, MajorGroupRows(csv.rows)),
        ret |-> Len(MajorGroupRows(csv.rows))]

\* The surrogate id the store gives a new dim_occupation row.
NextOccupationId(dim) ==
  IF dim = <<>> THEN 1 ELSE SetMax({r.occupation_id : r \in Range(dim)}) + 1

\* An occupation upsert that inserts without looking for the code.
UpsertOccupation_insert_only(dim, rec) ==
  Append(dim, [occupation_id |-> NextOccupationId(dim),
               onetsoc_code |-> rec.onetsoc_code,
               title |-> rec.title,
               description |-> rec.description,
               major_group_code |-> rec.major_group_code])

\* INSERT ... ON CONFLICT(onetsoc_code) DO UPDATE for one record: the row
\* with the code keeps its occupation_id and takes the three other columns,
\* else a row with a new occupation_id is appended.
UpsertOccupation(dim, rec) ==
  IF \E i \in 1..Len(dim) : dim[i].onetsoc_code = rec.onetsoc_code
  THEN [i \in 1..Len(dim) |->
          IF dim[i].onetsoc_code = rec.onetsoc_code
          THEN [dim[i] EXCEPT !.title = rec.title,
                              !.description = rec.description,
                              !.major_group_code = rec.major_group_code]
          ELSE dim[i]]
  ELSE Append(dim, [occupation_id |-> NextOccupationId(dim),
                    onetsoc_code |-> rec.onetsoc_code,
                    title |-> rec.title,
                    description |-> rec.description,
                    major_group_code |-> rec.major_group_code])

RECURSIVE UpsertOccupations(_, _)
UpsertOccupations(dim, recs) ==
  IF recs = <<>> THEN dim
  ELSE UpsertOccupations(UpsertOccupation(dim, Head(recs)), Tail(recs))

load_dim_occupation(dim, recs) ==
  [table |-> UpsertOccupations(dim, recs), ret |-> Len(recs)]

\* A UNION that reads the skills staging table only.
ElementUnion_skills_only(sk, kn, ab) ==
  LET ids == SetToSeq({r.element_id : r \in Range(sk)})
  IN [i \in 1..Len(ids) |-> [element_id |-> ids[i], domain |-> "SKILL"]]

\* The UNION of load_dim_element: the distinct (element_id, domain) pairs of
\* the three staging tables, in the order of SQLite's sorted compound select.
ElementUnion(sk, kn, ab) ==
  LET ids == SetToSeq({r.element_id : r \in Range(sk) \cup Range(kn) \cup Range(ab)})
      Pairs(e) ==
        (IF \E r \in Range(ab) : r.element_id = e
         THEN <<[element_id |-> e, domain |-> "ABILITY"]>> ELSE <<>>)
        \o (IF \E r \in Range(kn) : r.element_id = e
            THEN <<[element_id |-> e, domain |-> "KNOWLEDGE"]>> ELSE <<>>)
        \o (IF \E r \in Range(sk) : r.element_id = e
            THEN <<[element_id |-> e, domain |-> "SKILL"]>> ELSE <<>>)
      RECURSIVE All(_)
      All(es) == IF es = <<>> THEN <<>> ELSE Pairs(Head(es)) \o All(Tail(es))
  IN All(ids)

\* INSERT OR REPLACE: the row with the same element_id is deleted, the new
\* row is added.
RECURSIVE ReplaceElements(_, _)
ReplaceElements(dim, rows) ==
  IF rows = <<>> THEN dim
  ELSE ReplaceElements(
         Append(SelectSeq(dim, LAMBDA old : old.element_id # Head(rows).element_id),
                Head(rows)),
         Tail(rows))

load_dim_element(dim, sk, kn, ab) ==
  [table |-> ReplaceElements(dim, ElementUnion(sk, kn, ab)),
   ret |-> Len(ElementUnion(sk, kn, ab))]

\* The same SELECT without the two joins.
AnchorJoin_ungated(stg, de, ds) == stg

\* The SELECT of load_dim_element_scale_anchor: a staged anchor once for each
\* pair of a dim_element row and a dim_scale row it joins to.
RECURSIVE AnchorJoin(_, _, _)
AnchorJoin(stg, de, ds) ==
  IF stg = <<>> THEN <<>>
  ELSE LET a == Head(stg)
           es == SelectSeq(de, LAMBDA e : e.element_id = a.element_id)
           ss == SelectSeq(ds, LAMBDA sc : sc.scale_id = a.scale_id)
       IN [i \in 1..(Len(es) * Len(ss)) |-> a] \o AnchorJoin(Tail(stg), de, ds)

SameAnchor(old, new) ==
  /\ old.element_id = new.element_id
  /\ old.scale_id = new.scale_id
  /\ old.anchor_value = new.anchor_value

\* INSERT ... ON CONFLICT(element_id, scale_id, anchor_value) DO UPDATE for
\* one row: the row with the key takes the new anchor_description, else the
\* row is appended.
UpsertAnchor(dim, row) ==
  IF \E i \in 1..Len(dim) : SameAnchor(dim[i], row)
  THEN [i \in 1..Len(dim) |->
          IF SameAnchor(dim[i], row)
          THEN [dim[i] EXCEPT !.anchor_description = row.anchor_description]
          ELSE dim[i]]
  ELSE Append(dim, row)

RECURSIVE UpsertAnchors(_, _)
UpsertAnchors(dim, rows) ==
  IF rows = <<>> THEN dim
  ELSE UpsertAnchors(UpsertAnchor(dim, Head(rows)), Tail(rows))

load_dim_element_scale_anchor(dim, stg, de, ds) ==
  [table |-> UpsertAnchors(dim, AnchorJoin(stg, de, ds)), ret |-> Len(stg)]

\* A LEFT JOIN in place of the JOIN: a staged rating without occupation
\* comes out once, with no occupation_id.
RECURSIVE FactJoin_left(_, _)
FactJoin_left(stg, d) ==
  IF stg = <<>> THEN <<>>
  ELSE LET s == Head(stg)
           occ == SelectSeq(d, LAMBDA o : o.onetsoc_code = s.onetsoc_code)
           ids == IF occ = <<>> THEN <<None>>
                  ELSE [i \in 1..Len(occ) |-> occ[i].occupation_id]
       IN [i \in 1..Len(ids) |->
             [occupation_id |-> ids[i],
              element_id |-> s.element_id,
              scale_id |-> s.scale_id,
              data_value |-> s.data_value,
              lower_ci_bound |-> s.lower_ci_bound,
              upper_ci_bound |-> s.upper_ci_bound]]
          \o FactJoin_left(Tail(stg), d)

\* One SELECT of load_fact_occupation_element_rating: the staged ratings of
\* one domain joined to dim_occupation on the occupation code, in staging order.
RECURSIVE FactJoin(_, _)
FactJoin(stg, d) ==
  IF stg = <<>> THEN <<>>
  ELSE LET s == Head(stg)
           occ == SelectSeq(d, LAMBDA o : o.onetsoc_code = s.onetsoc_code)
       IN [i \in 1..Len(occ) |->
             [occupation_id |-> occ[i].occupation_id,
              element_id |-> s.element_id,
              scale_id |-> s.scale_id,
              data_value |-> s.data_value,
              lower_ci_bound |-> s.lower_ci_bound,
              upper_ci_bound |-> s.upper_ci_bound]]
          \o FactJoin(Tail(stg), d)

SameGrain(old, new) ==
  /\ old.occupation_id = new.occupation_id
  /\ old.element_id = new.element_id
  /\ old.scale_id = new.scale_id

\* A fact upsert that inserts without looking for the key.
UpsertFact_insert_only(fact, row) == Append(fact, row)

\* INSERT ... ON CONFLICT(occupation_id, element_id, scale_id) DO UPDATE for
\* one row: the row with the key takes every other column of the new row,
\* else the row is appended.
UpsertFact(fact, row) ==
  IF \E i \in 1..Len(fact) : SameGrain(fact[i], row)
  THEN [i \in 1..Len(fact) |-> IF SameGrain(fact[i], row) THEN row ELSE fact[i]]
  ELSE Append(fact, row)

RECURSIVE UpsertFacts(_, _)
UpsertFacts(fact, rows) ==
  IF rows = <<>> THEN fact
  ELSE UpsertFacts(UpsertFact(fact, Head(rows)), Tail(rows))

\* The three upserts the other way round: abilities, knowledge, skills.
load_fact_abilities_first(fact, sk, kn, ab, d) ==
  [table |-> UpsertFacts(UpsertFacts(UpsertFacts(fact, FactJoin(ab, d)),
                                     FactJoin(kn, d)),
                         FactJoin(sk, d)),
   ret |-> Len(FactJoin(sk, d)) + Len(FactJoin(kn, d)) + Len(FactJoin(ab, d))]

\* Skills, then knowledge, then abilities, each upserted into the one table.
load_fact_occupation_element_rating(fact, sk, kn, ab, d) ==
  [table |-> UpsertFacts(UpsertFacts(UpsertFacts(fact, FactJoin(sk, d)),
                                     FactJoin(kn, d)),
                         FactJoin(ab, d)),
   ret |-> Len(FactJoin(sk, d)) + Len(FactJoin(kn, d)) + Len(FactJoin(ab, d))]

----------------------------------------------------------------------------
(* Bounds and input vocabularies                                           *)

\* Longest raw occupation list given to clean_occupation_records.
MaxOcc == 2

\* Longest raw rating list given to split_and_clean_ska_records.
MaxSka == 2

SeqUpTo(S, n) == UNION {[1..k -> S] : k \in 0..n}

SOC1 == <<"1", "5", "-", "1", "2", "1", "1", ".", "0", "0">>

SOC2 == <<"2", "9", "-", "1", "1", "4", "1", ".", "0", "0">>

PaddedSOC1 == <<" ">> \o SOC1 \o <<" ">>

BadSOC == <<"1", "5", "-", "1", "2">>

E1 == <<"e", "1">>

E2 == <<"e", "2">>

IM == <<"I", "M">>

LV == <<"L", "V">>

\* A code with one character before the "-", and a code without "-".
ShortLeadCode == <<"1", "-", "2">>

NoDashCode == <<"1", "5", "1">>

\* Raw occupation rows: codes that are equal only after trimming, an empty
\* code, codes that are not SOC-shaped, empty, missing and blank titles, a
\* title with inner whitespace.
RawOccupationRows ==
  [onetsoc_code : {SOC1, PaddedSOC1, SOC2, <<>>, ShortLeadCode, NoDashCode},
   title : {<<>>, None, <<" ">>, <<"A">>, <<"B", " ", "\t", "b">>},
   description : {<<>>, <<"d">>}]

\* Raw rating rows whose key columns vary.
RawKeyRows ==
  [onetsoc_code : {None, <<" ">>, SOC1, PaddedSOC1, BadSOC},
   element_id : {None, E1, <<"e", "1", " ">>},
   scale_id : {IM, <<" ", "l", "v">>, <<"X", "X">>},
   data_value : {None},
   lower_ci_bound : {None},
   upper_ci_bound : {None}]

\* Raw rating rows with a good key whose numeric columns vary.
RawBoundRows ==
  [onetsoc_code : {SOC1},
   element_id : {E1},
   scale_id : {IM},
   data_value : {<<"2">>, <<"x">>},
   lower_ci_bound : {None, <<"1">>, <<" ", "3">>, <<"-", "n", "a", "n">>},
   upper_ci_bound : {None, <<"1">>, <<"3">>, <<"n", "a", "n">>}]

RawRatingRows == RawKeyRows \cup RawBoundRows

Domains == {"skill", "knowledge", "ability"}

NoCall == [fn |-> "none", records |-> <<>>]

EmptyStore ==
  /\ stg_occupation_data = <<>> /\ stg_skills = <<>> /\ stg_knowledge = <<>>
  /\ stg_abilities = <<>> /\ stg_invalid_ska = <<>>
  /\ stg_level_scale_anchors = <<>> /\ stg_scales_reference = <<>>
  /\ dim_scale = <<>> /\ dim_major_group = <<>> /\ dim_occupation = <<>>
  /\ dim_element = <<>> /\ dim_element_scale = <<>>
  /\ fact_occupation_element_rating = <<>>

\* A raw directory without any of the six dump files.
NoSources ==
  [occupation |-> AbsentFile, skills |-> AbsentFile, knowledge |-> AbsentFile,
   abilities |-> AbsentFile, level_scale_anchors |-> AbsentFile,
   scales_reference |-> AbsentFile]

NoInputs ==
  /\ sources = NoSources
  /\ raw_records = <<>> /\ skills = <<>> /\ knowledge = <<>> /\ abilities = <<>>
  /\ scales_ref = <<>> /\ anchors = <<>> /\ mg_csv = AbsentFile

NothingCleaned ==
  /\ records = <<>>
  /\ skills_clean = <<>> /\ skills_invalid = <<>>
  /\ knowledge_clean = <<>> /\ knowledge_invalid = <<>>
  /\ abilities_clean = <<>> /\ abilities_invalid = <<>>

NoSka ==
  /\ ska_records = <<>> /\ ska_domain = "skill" /\ ska_valid = <<>> /\ ska_invalid = <<>>

NoControl ==
  /\ runs = 0 /\ ret = 0 /\ prev_store = <<>> /\ last_call = NoCall /\ s_errors = {}

----------------------------------------------------------------------------
(* The occupation cleaner on its own                                       *)

InitOcc ==
  /\ pc = "raw"
  /\ raw_records \in SeqUpTo(RawOccupationRows, MaxOcc)
  /\ sources = NoSources
  /\ skills = <<>> /\ knowledge = <<>> /\ abilities = <<>>
  /\ scales_ref = <<>> /\ anchors = <<>> /\ mg_csv = AbsentFile
  /\ NothingCleaned /\ EmptyStore /\ NoSka /\ NoControl

CleanOccupations ==
  /\ pc = "raw"
  /\ pc' = "cleaned"
  /\ records' = clean_occupation_records(raw_records)
  /\ UNCHANGED <<runs, ret, prev_store, last_call, s_errors, inputsV, stgV, dimV, skaV,
                 skills_clean, skills_invalid, knowledge_clean, knowledge_invalid,
                 abilities_clean, abilities_invalid>>

NextOcc == CleanOccupations

SpecOcc == InitOcc /\ [][NextOcc]_vars

----------------------------------------------------------------------------
(* The rating splitter on its own                                          *)

InitSka ==
  /\ pc = "raw"
  /\ ska_records \in SeqUpTo(RawRatingRows, MaxSka)
  /\ ska_domain = "skill" /\ ska_valid = <<>> /\ ska_invalid = <<>>
  /\ NoInputs /\ NothingCleaned /\ EmptyStore /\ NoControl

SplitSka ==
  /\ pc = "raw"
  /\ pc' = "split"
  /\ \E d \in Domains :
       /\ ska_domain' = d
       /\ ska_valid' = split_and_clean_ska_records(ska_records, d).valid
       /\ ska_invalid' = split_and_clean_ska_records(ska_records, d).invalid
  /\ UNCHANGED <<runs, ret, prev_store, last_call, s_errors, ska_records,
                 inputsV, cleanV, stgV, dimV>>

NextSka == SplitSka

SpecSka == InitSka /\ [][NextSka]_vars

----------------------------------------------------------------------------
(* Claims about the cleaners                                               *)

RawCode(i) == normalize_space(raw_records[i].onetsoc_code)

RawTitle(i) == normalize_space(raw_records[i].title)

RawDescription(i) ==
  IF normalize_space(raw_records[i].description) = <<>> THEN Unavailable
  ELSE normalize_space(raw_records[i].description)

CleanedWithCode(code) == {m \in 1..Len(records) : records[m].onetsoc_code = code}

\* The least element of a non-empty set of indices.
FirstOf(S) == CHOOSE i \in S : \A j \in S : i <= j

\* C1 as stated: when two raw occupation rows carry the same (non-empty)
\* code, the cleaned output has exactly one row with that code and it is
\* built from the first raw row with that code, whatever its title is.
C1_DuplicateKeepsFirstRow ==
  pc = "cleaned" =>
    \A i, j \in 1..Len(raw_records) :
      (i < j /\ RawCode(i) = RawCode(j) /\ RawCode(i) # <<>>) =>
        LET first == FirstOf({k \in 1..Len(raw_records) : RawCode(k) = RawCode(i)})
        IN /\ Cardinality(CleanedWithCode(RawCode(i))) = 1
           /\ \A m \in CleanedWithCode(RawCode(i)) :
                /\ records[m].title = RawTitle(first)
                /\ records[m].description = RawDescription(first)

\* C1 as amended: for every non-empty code of the raw input, the cleaned
\* output has exactly one row with that code when some raw row with that code
\* has a non-empty title, built from the first such row, and no row with that
\* code otherwise.
C1_DuplicateKeepsFirstTitledRow ==
  pc = "cleaned" =>
    \A i \in 1..Len(raw_records) :
      RawCode(i) # <<>> =>
        LET titled == {k \in 1..Len(raw_records) :
                         RawCode(k) = RawCode(i) /\ RawTitle(k) # <<>>}
        IN IF titled = {}
           THEN CleanedWithCode(RawCode(i)) = {}
           ELSE /\ Cardinality(CleanedWithCode(RawCode(i))) = 1
                /\ \A m \in CleanedWithCode(RawCode(i)) :
                     /\ records[m].title = RawTitle(FirstOf(titled))
                     /\ records[m].description = RawDescription(FirstOf(titled))

\* Two raw rows with one code, the first with an empty title, the second
\* with a title, and the code is in the cleaned output.
C1_Witness ==
  /\ pc = "cleaned"
  /\ \E i, j \in 1..Len(raw_records) :
       /\ i < j /\ RawCode(i) = RawCode(j) /\ RawCode(i) # <<>>
       /\ RawTitle(i) = <<>> /\ RawTitle(j) # <<>>
       /\ CleanedWithCode(RawCode(i)) # {}

\* The four structural checks, each stated on the raw value.
Blank(v) == v = None \/ \A i \in 1..Len(v) : v[i] \in Whitespace

CodeMissing(r) == Blank(r.onetsoc_code)

CodeMisshaped(r) == ~Blank(r.onetsoc_code) /\ ~is_valid_soc(Strip(r.onetsoc_code))

ElementMissing(r) == Blank(r.element_id)

ScaleNotAllowed(r) == Blank(r.scale_id) \/ Upper(Strip(r.scale_id)) \notin {IM, LV}

FirstFailingCheck(r) ==
  IF CodeMissing(r) THEN "missing_onetsoc_code"
  ELSE IF CodeMisshaped(r) THEN "invalid_soc_format"
  ELSE IF ElementMissing(r) THEN "missing_element_id"
  ELSE IF ScaleNotAllowed(r) THEN "invalid_scale_id"
  ELSE "ok"

FailingRows == SelectSeq(ska_records, LAMBDA r : FirstFailingCheck(r) # "ok")

PassingRows == SelectSeq(ska_records, LAMBDA r : FirstFailingCheck(r) = "ok")

RatingKey(r) == <<r.onetsoc_code, r.element_id, r.scale_id>>

\* C5: no two cleaned rating records of a domain share the natural key
\* (occupation code, element id, scale id).
C5_CleanedKeysUnique ==
  pc = "split" =>
    \A i, j \in 1..Len(ska_valid) :
      i # j => RatingKey(ska_valid[i]) # RatingKey(ska_valid[j])

\* A cleaned record with both confidence bounds present has
\* lower_ci_bound <= upper_ci_bound.
BoundsOrdered ==
  pc = "split" =>
    \A k \in 1..Len(ska_valid) :
      (ska_valid[k].lower_ci_bound # None /\ ska_valid[k].upper_ci_bound # None) =>
        FloatLE(ska_valid[k].lower_ci_bound, ska_valid[k].upper_ci_bound)

\* Reversed raw bounds come out swapped, and a record with at most one
\* bound present keeps what the raw row gave.
SwapOnlyWhenReversed ==
  pc = "split" =>
    /\ Len(ska_valid) = Len(PassingRows)
    /\ \A k \in 1..Len(ska_valid) :
         LET lo == to_float(PassingRows[k].lower_ci_bound)
             hi == to_float(PassingRows[k].upper_ci_bound)
         IN /\ FloatGT(lo, hi) =>
                 /\ ska_valid[k].lower_ci_bound = hi
                 /\ ska_valid[k].upper_ci_bound = lo
            /\ (lo = None \/ hi = None) =>
                 /\ ska_valid[k].lower_ci_bound = lo
                 /\ ska_valid[k].upper_ci_bound = hi

\* C6: every cleaned record with both confidence bounds present has
\* lower_ci_bound <= upper_ci_bound; bounds that were reversed in the raw row
\* come out swapped; a record with at most one bound present is left as it was.
C6_ConfidenceBounds == BoundsOrdered /\ SwapOnlyWhenReversed

----------------------------------------------------------------------------
(* The loaders and promoters called in any order on one store              *)

\* Longest record list given to one loader call.
MaxLoadRecs == 2

\* Most rows the seven staging tables hold together.
MaxStaged == 3

CX == <<"C", "X">>

E3 == <<"e", "3">>

\* Cleaned rating records: two with one key and different values, one with
\* another key.
CleanRatingRecs ==
  { [onetsoc_code |-> SOC1, element_id |-> E1, scale_id |-> IM, data_value |-> Num(1),
     lower_ci_bound |-> None, upper_ci_bound |-> None, domain |-> "SKILL"],
    [onetsoc_code |-> SOC1, element_id |-> E1, scale_id |-> IM, data_value |-> Num(2),
     lower_ci_bound |-> Num(1), upper_ci_bound |-> Num(3), domain |-> "SKILL"],
    [onetsoc_code |-> SOC2, element_id |-> E2, scale_id |-> LV, data_value |-> Num(1),
     lower_ci_bound |-> None, upper_ci_bound |-> None, domain |-> "SKILL"] }

\* Cleaned occupation records: one code with two titles, and a second code.
CleanOccupationRecs ==
  { [onetsoc_code |-> SOC1, title |-> <<"A">>, description |-> Unavailable,
     major_group_code |-> <<"1", "5">>],
    [onetsoc_code |-> SOC1, title |-> <<"B">>, description |-> <<"d">>,
     major_group_code |-> <<"1", "5">>],
    [onetsoc_code |-> SOC2, title |-> <<"C">>, description |-> Unavailable,
     major_group_code |-> <<"2", "9">>] }

\* clean_occupation_records never gives one code twice.
CleanOccupationLists ==
  {l \in SeqUpTo(CleanOccupationRecs, MaxLoadRecs) :
     \A i, j \in 1..Len(l) : i # j => l[i].onetsoc_code # l[j].onetsoc_code}

\* Raw anchors: one key with two descriptions, and an element no rating has.
RawAnchorRows ==
  { [element_id |-> E1, scale_id |-> LV, anchor_value |-> <<"1">>,
     anchor_description |-> <<"x">>],
    [element_id |-> E1, scale_id |-> LV, anchor_value |-> <<"1">>,
     anchor_description |-> <<"y">>],
    [element_id |-> E3, scale_id |-> LV, anchor_value |-> <<"1">>,
     anchor_description |-> <<"z">>] }

\* Raw scale reference rows: LV twice with different ranges, and a scale
\* that is not allowed.
RawScaleRows ==
  { [scale_id |-> LV, scale_name |-> <<"L">>, minimum |-> 0, maximum |-> 7],
    [scale_id |-> LV, scale_name |-> <<"L">>, minimum |-> 1, maximum |-> 9],
    [scale_id |-> CX, scale_name |-> <<"C">>, minimum |-> 1, maximum |-> 3] }

InvalidRecs ==
  { InvalidRow([onetsoc_code |-> None, element_id |-> E1, scale_id |-> IM,
                data_value |-> None, lower_ci_bound |-> None, upper_ci_bound |-> None],
               "missing_onetsoc_code", "skill"),
    InvalidRow([onetsoc_code |-> SOC1, element_id |-> E1, scale_id |-> CX,
                data_value |-> <<"2">>, lower_ci_bound |-> None, upper_ci_bound |-> None],
               "invalid_scale_id", "ability") }

\* The major group lookup file: absent, or rows of which one has no name.
MajorGroupFiles ==
  { AbsentFile,
    File(<< [code_full |-> <<"1", "5", "-", "0">>, name |-> <<"C">>] >>),
    File(<< [code_full |-> <<"1", "5", "-", "0">>, name |-> <<"D">>],
            [code_full |-> <<"2", "9", "-", "0">>, name |-> <<" ">>] >>) }

StagedRows ==
  Len(stg_occupation_data) + Len(stg_skills) + Len(stg_knowledge) + Len(stg_abilities)
  + Len(stg_invalid_ska) + Len(stg_level_scale_anchors) + Len(stg_scales_reference)

InitLoad ==
  /\ pc = "store"
  /\ NoInputs /\ NothingCleaned /\ EmptyStore /\ NoSka /\ NoControl

StgOccupation ==
  \E recs \in CleanOccupationLists :
    LET r == load_stg_occupation(stg_occupation_data, recs)
    IN /\ StagedRows - Len(stg_occupation_data) + Len(r.table) <= MaxStaged
       /\ stg_occupation_data' = r.table
       /\ ret' = r.ret
       /\ last_call' = [fn |-> "load_stg_occupation", records |-> recs]
       /\ UNCHANGED <<pc, runs, prev_store, s_errors, inputsV, cleanV, skaV>>
       /\ UNCHANGED <<stg_skills, stg_knowledge, stg_abilities, stg_invalid_ska,
                      stg_level_scale_anchors, stg_scales_reference, dim_scale,
                      dim_major_group, dim_occupation, dim_element, dim_element_scale,
                      fact_occupation_element_rating>>

StgSkills ==
  \E recs \in SeqUpTo(CleanRatingRecs, MaxLoadRecs) :
    LET r == load_stg_skills(stg_skills, recs)
    IN /\ StagedRows - Len(stg_skills) + Len(r.table) <= MaxStaged
       /\ stg_skills' = r.table
       /\ ret' = r.ret
       /\ last_call' = [fn |-> "load_stg_skills", records |-> recs]
       /\ UNCHANGED <<pc, runs, prev_store, s_errors, inputsV, cleanV, skaV>>
       /\ UNCHANGED <<stg_occupation_data, stg_knowledge, stg_abilities, stg_invalid_ska,
                      stg_level_scale_anchors, stg_scales_reference, dim_scale,
                      dim_major_group, dim_occupation, dim_element, dim_element_scale,
                      fact_occupation_element_rating>>

StgKnowledge ==
  \E recs \in SeqUpTo(CleanRatingRecs, MaxLoadRecs) :
    LET r == load_stg_knowledge(stg_knowledge, recs)
    IN /\ StagedRows - Len(stg_knowledge) + Len(r.table) <= MaxStaged
       /\ stg_knowledge' = r.table
       /\ ret' = r.ret
       /\ last_call' = [fn |-> "load_stg_knowledge", records |-> recs]
       /\ UNCHANGED <<pc, runs, prev_store, s_errors, inputsV, cleanV, skaV>>
       /\ UNCHANGED <<stg_occupation_data, stg_skills, stg_abilities, stg_invalid_ska,
                      stg_level_scale_anchors, stg_scales_reference, dim_scale,
                      dim_major_group, dim_occupation, dim_element, dim_element_scale,
                      fact_occupation_element_rating>>

StgAbilities ==
  \E recs \in SeqUpTo(CleanRatingRecs, MaxLoadRecs) :
    LET r == load_stg_abilities(stg_abilities, recs)
    IN /\ StagedRows - Len(stg_abilities) + Len(r.table) <= MaxStaged
       /\ stg_abilities' = r.table
       /\ ret' = r.ret
       /\ last_call' = [fn |-> "load_stg_abilities", records |-> recs]
       /\ UNCHANGED <<pc, runs, prev_store, s_errors, inputsV, cleanV, skaV>>
       /\ UNCHANGED <<stg_occupation_data, stg_skills, stg_knowledge, stg_invalid_ska,
                      stg_level_scale_anchors, stg_scales_reference, dim_scale,
                      dim_major_group, dim_occupation, dim_element, dim_element_scale,
                      fact_occupation_element_rating>>

StgInvalidSka ==
  \E recs \in SeqUpTo(InvalidRecs, MaxLoadRecs) :
    LET r == load_stg_invalid_ska(stg_invalid_ska, recs)
    IN /\ StagedRows - Len(stg_invalid_ska) + Len(r.table) <= MaxStaged
       /\ stg_invalid_ska' = r.table
       /\ ret' = r.ret
       /\ last_call' = [fn |-> "load_stg_invalid_ska", records |-> recs]
       /\ UNCHANGED <<pc, runs, prev_store, s_errors, inputsV, cleanV, skaV>>
       /\ UNCHANGED <<stg_occupation_data, stg_skills, stg_knowledge, stg_abilities,
                      stg_level_scale_anchors, stg_scales_reference, dim_scale,
                      dim_major_group, dim_occupation, dim_element, dim_element_scale,
                      fact_occupation_element_rating>>

StgLevelScaleAnchors ==
  \E recs \in SeqUpTo(RawAnchorRows, MaxLoadRecs) :
    LET r == load_stg_level_scale_anchors(stg_level_scale_anchors, recs)
    IN /\ StagedRows - Len(stg_level_scale_anchors) + Len(r.table) <= MaxStaged
       /\ stg_level_scale_anchors' = r.table
       /\ ret' = r.ret
       /\ last_call' = [fn |-> "load_stg_level_scale_anchors", records |-> recs]
       /\ UNCHANGED <<pc, runs, prev_store, s_errors, inputsV, cleanV, skaV>>
       /\ UNCHANGED <<stg_occupation_data, stg_skills, stg_knowledge, stg_abilities,
                      stg_invalid_ska, stg_scales_reference, dim_scale, dim_major_group,
                      dim_occupation, dim_element, dim_element_scale,
                      fact_occupation_element_rating>>

StgScalesReference ==
  \E recs \in SeqUpTo(RawScaleRows, MaxLoadRecs) :
    LET r == load_stg_scales_reference(stg_scales_reference, recs)
    IN /\ StagedRows - Len(stg_scales_reference) + Len(r.table) <= MaxStaged
       /\ stg_scales_reference' = r.table
       /\ ret' = r.ret
       /\ last_call' = [fn |-> "load_stg_scales_reference", records |-> recs]
       /\ UNCHANGED <<pc, runs, prev_store, s_errors, inputsV, cleanV, skaV>>
       /\ UNCHANGED <<stg_occupation_data, stg_skills, stg_knowledge, stg_abilities,
                      stg_invalid_ska, stg_level_scale_anchors, dim_scale,
                      dim_major_group, dim_occupation, dim_element, dim_element_scale,
                      fact_occupation_element_rating>>

DimScale ==
  LET r == load_dim_scale_from_staging(stg_scales_reference)
  IN /\ dim_scale' = r.table
     /\ ret' = r.ret
     /\ last_call' = [fn |-> "load_dim_scale_from_staging", records |-> <<>>]
     /\ UNCHANGED <<pc, runs, prev_store, s_errors, inputsV, cleanV, skaV>>
     /\ UNCHANGED <<stg_occupation_data, stg_skills, stg_knowledge, stg_abilities,
                    stg_invalid_ska, stg_level_scale_anchors, stg_scales_reference,
                    dim_major_group, dim_occupation, dim_element, dim_element_scale,
                    fact_occupation_element_rating>>

DimMajorGroup ==
  \E csv \in MajorGroupFiles :
    LET r == load_dim_major_group(dim_major_group, csv)
    IN /\ dim_major_group' = r.table
       /\ ret' = r.ret
       /\ last_call' = [fn |-> "load_dim_major_group", records |-> csv]
       /\ UNCHANGED <<pc, runs, prev_store, s_errors, inputsV, cleanV, skaV>>
       /\ UNCHANGED <<stg_occupation_data, stg_skills, stg_knowledge, stg_abilities,
                      stg_invalid_ska, stg_level_scale_anchors, stg_scales_reference,
                      dim_scale, dim_occupation, dim_element, dim_element_scale,
                      fact_occupation_element_rating>>

DimOccupation ==
  \E recs \in CleanOccupationLists :
    LET r == load_dim_occupation(dim_occupation, recs)
    IN /\ dim_occupation' = r.table
       /\ ret' = r.ret
       /\ last_call' = [fn |-> "load_dim_occupation", records |-> recs]
       /\ UNCHANGED <<pc, runs, prev_store, s_errors, inputsV, cleanV, skaV>>
       /\ UNCHANGED <<stg_occupation_data, stg_skills, stg_knowledge, stg_abilities,
                      stg_invalid_ska, stg_level_scale_anchors, stg_scales_reference,
                      dim_scale, dim_major_group, dim_element, dim_element_scale,
                      fact_occupation_element_rating>>

DimElement ==
  LET r == load_dim_element(dim_element, stg_skills, stg_knowledge, stg_abilities)
  IN /\ dim_element' = r.table
     /\ ret' = r.ret
     /\ last_call' = [fn |-> "load_dim_element", records |-> <<>>]
     /\ UNCHANGED <<pc, runs, prev_store, s_errors, inputsV, cleanV, skaV>>
     /\ UNCHANGED <<stg_occupation_data, stg_skills, stg_knowledge, stg_abilities,
                    stg_invalid_ska, stg_level_scale_anchors, stg_scales_reference,
                    dim_scale, dim_major_group, dim_occupation, dim_element_scale,
                    fact_occupation_element_rating>>

DimElementScaleAnchor ==
  LET r == load_dim_element_scale_anchor(dim_element_scale, stg_level_scale_anchors,
                                         dim_element, dim_scale)
  IN /\ dim_element_scale' = r.table
     /\ ret' = r.ret
     /\ last_call' = [fn |-> "load_dim_element_scale_anchor", records |-> <<>>]
     /\ UNCHANGED <<pc, runs, prev_store, s_errors, inputsV, cleanV, skaV>>
     /\ UNCHANGED <<stg_occupation_data, stg_skills, stg_knowledge, stg_abilities,
                    stg_invalid_ska, stg_level_scale_anchors, stg_scales_reference,
                    dim_scale, dim_major_group, dim_occupation, dim_element,
                    fact_occupation_element_rating>>

FactOccupationElementRating ==
  LET r == load_fact_occupation_element_rating(fact_occupation_element_rating, stg_skills,
                                               stg_knowledge, stg_abilities, dim_occupation)
  IN /\ fact_occupation_element_rating' = r.table
     /\ ret' = r.ret
     /\ last_call' = [fn |-> "load_fact_occupation_element_rating", records |-> <<>>]
     /\ UNCHANGED <<pc, runs, prev_store, s_errors, inputsV, cleanV, skaV>>
     /\ UNCHANGED <<stg_occupation_data, stg_skills, stg_knowledge, stg_abilities,
                    stg_invalid_ska, stg_level_scale_anchors, stg_scales_reference,
                    dim_scale, dim_major_group, dim_occupation, dim_element,
                    dim_element_scale>>

\* The loaders that read nothing of the store: the seven staging loaders and
\* the major group lookup.
NextStage ==
  \/ StgOccupation
  \/ StgSkills
  \/ StgKnowledge
  \/ StgAbilities
  \/ StgInvalidSka
  \/ StgLevelScaleAnchors
  \/ StgScalesReference
  \/ DimMajorGroup

SpecStage == InitLoad /\ [][NextStage]_vars

\* The rating staging tables, the occupation dimension and the fact table.
NextFact ==
  \/ StgSkills
  \/ StgKnowledge
  \/ StgAbilities
  \/ DimOccupation
  \/ FactOccupationElementRating

SpecFact == InitLoad /\ [][NextFact]_vars

\* The scale, element and anchor dimensions and what feeds them.
NextDims ==
  \/ StgSkills
  \/ StgKnowledge
  \/ StgAbilities
  \/ StgLevelScaleAnchors
  \/ StgScalesReference
  \/ DimScale
  \/ DimElement
  \/ DimElementScaleAnchor

SpecDims == InitLoad /\ [][NextDims]_vars

\* The six promotion steps over staging that no step changes.  Staged
\* ratings: a key twice with different values, and a second key.
StagedRatingLists ==
  LET r1 == StagedRating([onetsoc_code |-> SOC1, element_id |-> E1, scale_id |-> IM,
                          data_value |-> Num(1), lower_ci_bound |-> None,
                          upper_ci_bound |-> None])
      r2 == StagedRating([onetsoc_code |-> SOC1, element_id |-> E1, scale_id |-> IM,
                          data_value |-> Num(2), lower_ci_bound |-> Num(1),
                          upper_ci_bound |-> Num(3)])
      r3 == StagedRating([onetsoc_code |-> SOC2, element_id |-> E2, scale_id |-> LV,
                          data_value |-> Num(1), lower_ci_bound |-> None,
                          upper_ci_bound |-> None])
  IN [skills |-> {<<>>, <<r1, r2>>, <<r3>>},
      knowledge |-> {<<>>, <<r2>>},
      abilities |-> {<<>>, <<r3, r1>>}]

\* Staged anchors: one key with two descriptions, or with an element no
\* rating has.
StagedAnchorLists ==
  { <<>>,
    << [element_id |-> E1, scale_id |-> LV, anchor_value |-> <<"1">>,
        anchor_description |-> <<"x">>],
       [element_id |-> E1, scale_id |-> LV, anchor_value |-> <<"1">>,
        anchor_description |-> <<"y">>] >>,
    << [element_id |-> E3, scale_id |-> LV, anchor_value |-> <<"1">>,
        anchor_description |-> <<"z">>],
       [element_id |-> E1, scale_id |-> LV, anchor_value |-> <<"1">>,
        anchor_description |-> <<"x">>] >> }

\* Staged scale reference rows: LV twice under one name, LV and a scale that
\* is not allowed, LV under two names.
StagedScaleLists ==
  { <<>>,
    << [scale_id |-> LV, scale_name |-> <<"L">>, minimum |-> 1, maximum |-> 7],
       [scale_id |-> LV, scale_name |-> <<"L">>, minimum |-> 0, maximum |-> 9] >>,
    << [scale_id |-> CX, scale_name |-> <<"C">>, minimum |-> 1, maximum |-> 3],
       [scale_id |-> LV, scale_name |-> <<"L">>, minimum |-> 0, maximum |-> 7] >>,
    << [scale_id |-> LV, scale_name |-> <<"L">>, minimum |-> 0, maximum |-> 7],
       [scale_id |-> LV, scale_name |-> <<"M">>, minimum |-> 1, maximum |-> 9] >> }

InitPromote ==
  /\ pc = "store"
  /\ stg_skills \in StagedRatingLists.skills
  /\ stg_knowledge \in StagedRatingLists.knowledge
  /\ stg_abilities \in StagedRatingLists.abilities
  /\ stg_level_scale_anchors \in StagedAnchorLists
  /\ stg_scales_reference \in StagedScaleLists
  /\ stg_occupation_data = <<>> /\ stg_invalid_ska = <<>>
  /\ dim_scale = <<>> /\ dim_major_group = <<>> /\ dim_occupation = <<>>
  /\ dim_element = <<>> /\ dim_element_scale = <<>>
  /\ fact_occupation_element_rating = <<>>
  /\ NoInputs /\ NothingCleaned /\ NoSka /\ NoControl

NextPromote ==
  \/ DimScale
  \/ DimMajorGroup
  \/ DimOccupation
  \/ DimElement
  \/ DimElementScaleAnchor
  \/ FactOccupationElementRating

SpecPromote == InitPromote /\ [][NextPromote]_vars

----------------------------------------------------------------------------
(* extract.py: the six dump files of the raw directory                     *)

\* str(rec[key]).strip() when the value is not None (coerce_strip).
StripIfText(v) == IF v = None THEN None ELSE Strip(v)

\* An occupation source that is optional like the other five.
select_occupation_optional(srcs) ==
  [raised |-> "no", rows |-> IF ~srcs.occupation.exists THEN <<>> ELSE srcs.occupation.rows]

\* _select_occupation: the error when the file is missing, else its rows
\* with the three text columns stripped.
select_occupation(srcs) ==
  IF ~srcs.occupation.exists
  THEN [raised |-> "FileNotFoundError", rows |-> <<>>]
  ELSE [raised |-> "no",
        rows |-> [i \in 1..Len(srcs.occupation.rows) |->
                    [onetsoc_code |-> StripIfText(srcs.occupation.rows[i].onetsoc_code),
                     title |-> StripIfText(srcs.occupation.rows[i].title),
                     description |-> StripIfText(srcs.occupation.rows[i].description)]]]

\* _select_domain and the two reference branches of load_onet_records: no
\* rows when the file is missing, else the rows as they are.
select_domain(file) ==
  [raised |-> "no", rows |-> IF ~file.exists THEN <<>> ELSE file.rows]

load_onet_records(srcs, domain) ==
  CASE domain = "occupation" -> select_occupation(srcs)
    [] domain = "skills" -> select_domain(srcs.skills)
    [] domain = "knowledge" -> select_domain(srcs.knowledge)
    [] domain = "abilities" -> select_domain(srcs.abilities)
    [] domain = "level_scale_anchors" -> select_domain(srcs.level_scale_anchors)
    [] domain = "scales_reference" -> select_domain(srcs.scales_reference)
    [] OTHER -> [raised |-> "ValueError", rows |-> <<>>]

----------------------------------------------------------------------------
(* run_pipeline.py: run(), one step per call, run twice on the same input  *)

\* Most raw rating rows the three rating sources hold together.
MaxRunRatings == 2

\* The pipeline is run this many times, one run after the other.
MaxRuns == 2

\* Raw occupation sources: empty, one row, a code twice with the first title
\* empty, two codes.
RunOccupationSources ==
  { <<>>,
    << [onetsoc_code |-> SOC1, title |-> <<"A">>, description |-> <<>>] >>,
    << [onetsoc_code |-> SOC1, title |-> <<>>, description |-> <<"d">>],
       [onetsoc_code |-> PaddedSOC1, title |-> <<"B">>, description |-> <<"d">>] >>,
    << [onetsoc_code |-> SOC2, title |-> <<"C">>, description |-> <<>>],
       [onetsoc_code |-> SOC1, title |-> <<"A">>, description |-> <<"d">>] >> }

\* Raw rating rows of a source: two good rows with one key (one with reversed
\* bounds, one with a NaN bound), a good row with another key, a row without
\* occupation code, and a row whose occupation code is not SOC-shaped.
RunRatingRows ==
  { [onetsoc_code |-> SOC1, element_id |-> E1, scale_id |-> <<"i", "m">>,
     data_value |-> <<"2">>, lower_ci_bound |-> <<"3">>, upper_ci_bound |-> <<"1">>],
    [onetsoc_code |-> PaddedSOC1, element_id |-> E1, scale_id |-> IM,
     data_value |-> <<"1">>, lower_ci_bound |-> <<"-", "n", "a", "n">>,
     upper_ci_bound |-> None],
    [onetsoc_code |-> SOC2, element_id |-> E2, scale_id |-> LV,
     data_value |-> <<"1">>, lower_ci_bound |-> None, upper_ci_bound |-> None],
    [onetsoc_code |-> <<>>, element_id |-> E1, scale_id |-> IM,
     data_value |-> <<"2">>, lower_ci_bound |-> None, upper_ci_bound |-> None],
    [onetsoc_code |-> BadSOC, element_id |-> E2, scale_id |-> LV,
     data_value |-> <<"3">>, lower_ci_bound |-> None, upper_ci_bound |-> None] }

RunAnchorSources ==
  { <<>>,
    << [element_id |-> E1, scale_id |-> LV, anchor_value |-> <<"1">>,
        anchor_description |-> <<"x">>] >>,
    << [element_id |-> E1, scale_id |-> LV, anchor_value |-> <<"1">>,
        anchor_description |-> <<"x">>],
       [element_id |-> E3, scale_id |-> LV, anchor_value |-> <<"1">>,
        anchor_description |-> <<"z">>] >> }

RunScaleSources ==
  { <<>>,
    << [scale_id |-> LV, scale_name |-> <<"L">>, minimum |-> 0, maximum |-> 7] >>,
    << [scale_id |-> LV, scale_name |-> <<"L">>, minimum |-> 0, maximum |-> 7],
       [scale_id |-> CX, scale_name |-> <<"C">>, minimum |-> 1, maximum |-> 3] >> }

RunMajorGroupFiles ==
  { AbsentFile,
    File(<< [code_full |-> <<"1", "5", "-", "0">>, name |-> <<"C">>] >>) }

Store == <<stg_occupation_data, stg_skills, stg_knowledge, stg_abilities, stg_invalid_ska,
           stg_level_scale_anchors, stg_scales_reference, dim_scale, dim_major_group,
           dim_occupation, dim_element, dim_element_scale,
           fact_occupation_element_rating>>

\* An optional dump file: missing, or there with one of the given row lists.
OptionalFiles(lists) == {AbsentFile} \cup {File(rows) : rows \in lists \ {<<>>}}

Init ==
  /\ pc = "idle"
  /\ \E sk \in OptionalFiles(SeqUpTo(RunRatingRows, MaxRunRatings)),
        kn \in OptionalFiles(SeqUpTo(RunRatingRows, MaxRunRatings)),
        ab \in OptionalFiles(SeqUpTo(RunRatingRows, MaxRunRatings)),
        oc \in {AbsentFile} \cup {File(rows) : rows \in RunOccupationSources},
        an \in OptionalFiles(RunAnchorSources),
        sr \in OptionalFiles(RunScaleSources) :
       /\ Len(sk.rows) + Len(kn.rows) + Len(ab.rows) <= MaxRunRatings
       /\ sources = [occupation |-> oc, skills |-> sk, knowledge |-> kn,
                     abilities |-> ab, level_scale_anchors |-> an,
                     scales_reference |-> sr]
  /\ raw_records = <<>> /\ skills = <<>> /\ knowledge = <<>> /\ abilities = <<>>
  /\ scales_ref = <<>> /\ anchors = <<>>
  /\ mg_csv \in RunMajorGroupFiles
  /\ NothingCleaned /\ EmptyStore /\ NoSka /\ NoControl

\* Lines 29-35: the six sources are read; the locals of an earlier run are
\* gone.  The error of the occupation source is raised at line 29 and ends
\* the run there.
Extract ==
  /\ pc \in {"idle", "done"}
  /\ runs < MaxRuns
  /\ runs' = runs + 1
  /\ prev_store' = Store
  /\ IF load_onet_records(sources, "occupation").raised # "no"
     THEN /\ pc' = "failed"
          /\ raw_records' = <<>> /\ skills' = <<>> /\ knowledge' = <<>>
          /\ abilities' = <<>> /\ scales_ref' = <<>> /\ anchors' = <<>>
     ELSE /\ pc' = "extracted"
          /\ raw_records' = load_onet_records(sources, "occupation").rows
          /\ skills' = load_onet_records(sources, "skills").rows
          /\ knowledge' = load_onet_records(sources, "knowledge").rows
          /\ abilities' = load_onet_records(sources, "abilities").rows
          /\ scales_ref' = load_onet_records(sources, "scales_reference").rows
          /\ anchors' = load_onet_records(sources, "level_scale_anchors").rows
  /\ records' = <<>>
  /\ skills_clean' = <<>> /\ skills_invalid' = <<>>
  /\ knowledge_clean' = <<>> /\ knowledge_invalid' = <<>>
  /\ abilities_clean' = <<>> /\ abilities_invalid' = <<>>
  /\ s_errors' = {}
  /\ UNCHANGED <<ret, last_call, sources, mg_csv, stgV, dimV, skaV>>

\* Between two runs the occupation dump is taken out of the raw directory.
LoseOccupationSource ==
  /\ pc = "done"
  /\ runs < MaxRuns
  /\ sources.occupation.exists
  /\ sources' = [sources EXCEPT !.occupation = AbsentFile]
  /\ UNCHANGED <<ctlV, raw_records, skills, knowledge, abilities, scales_ref, anchors,
                 mg_csv, cleanV, stgV, dimV, skaV>>

\* split_and_clean_ska_records(rows, domain) if rows else ([], [])
SplitIfAny(rows, domain) ==
  IF rows # <<>> THEN split_and_clean_ska_records(rows, domain)
  ELSE [valid |-> <<>>, invalid |-> <<>>]

\* Lines 48-52.
Transform ==
  /\ pc = "extracted"
  /\ pc' = "transformed"
  /\ records' = clean_occupation_records(raw_records)
  /\ skills_clean' = SplitIfAny(skills, "skill").valid
  /\ skills_invalid' = SplitIfAny(skills, "skill").invalid
  /\ knowledge_clean' = SplitIfAny(knowledge, "knowledge").valid
  /\ knowledge_invalid' = SplitIfAny(knowledge, "knowledge").invalid
  /\ abilities_clean' = SplitIfAny(abilities, "ability").valid
  /\ abilities_invalid' = SplitIfAny(abilities, "ability").invalid
  /\ UNCHANGED <<runs, ret, prev_store, last_call, s_errors, inputsV, stgV, dimV, skaV>>

\* An init_db that applies the schema over the old file: the rows stay.
init_db_keep(table) == table

\* init_db removes the database file and applies the schema: what a table
\* holds afterwards.
init_db(table) == <<>>

\* Line 55.
InitDb ==
  /\ pc = "transformed"
  /\ pc' = "db_ready"
  /\ stg_occupation_data' = init_db(stg_occupation_data)
  /\ stg_skills' = init_db(stg_skills)
  /\ stg_knowledge' = init_db(stg_knowledge)
  /\ stg_abilities' = init_db(stg_abilities)
  /\ stg_invalid_ska' = init_db(stg_invalid_ska)
  /\ stg_level_scale_anchors' = init_db(stg_level_scale_anchors)
  /\ stg_scales_reference' = init_db(stg_scales_reference)
  /\ dim_scale' = init_db(dim_scale)
  /\ dim_major_group' = init_db(dim_major_group)
  /\ dim_occupation' = init_db(dim_occupation)
  /\ dim_element' = init_db(dim_element)
  /\ dim_element_scale' = init_db(dim_element_scale)
  /\ fact_occupation_element_rating' = init_db(fact_occupation_element_rating)
  /\ UNCHANGED <<runs, ret, prev_store, last_call, s_errors, inputsV, cleanV, skaV>>

\* Line 61.
RunStgOccupation ==
  /\ pc = "db_ready"
  /\ pc' = "stg_occupation"
  /\ IF TRUE
     THEN LET r == load_stg_occupation(stg_occupation_data, records)
          IN stg_occupation_data' = r.table /\ ret' = r.ret
     ELSE UNCHANGED <<stg_occupation_data, ret>>
  /\ UNCHANGED <<runs, prev_store, last_call, s_errors, inputsV, cleanV, skaV>>
  /\ UNCHANGED <<stg_skills, stg_knowledge, stg_abilities, stg_invalid_ska,
                 stg_level_scale_anchors, stg_scales_reference, dim_scale,
                 dim_major_group, dim_occupation, dim_element, dim_element_scale,
                 fact_occupation_element_rating>>

\* Lines 63-65.
RunStgSkills ==
  /\ pc = "stg_occupation"
  /\ pc' = "stg_skills"
  /\ IF skills_clean # <<>>
     THEN LET r == load_stg_skills(stg_skills, skills_clean)
          IN stg_skills' = r.table /\ ret' = r.ret
     ELSE UNCHANGED <<stg_skills, ret>>
  /\ UNCHANGED <<runs, prev_store, last_call, s_errors, inputsV, cleanV, skaV>>
  /\ UNCHANGED <<stg_occupation_data, stg_knowledge, stg_abilities, stg_invalid_ska,
                 stg_level_scale_anchors, stg_scales_reference, dim_scale,
                 dim_major_group, dim_occupation, dim_element, dim_element_scale,
                 fact_occupation_element_rating>>

\* Lines 66-68.
RunStgKnowledge ==
  /\ pc = "stg_skills"
  /\ pc' = "stg_knowledge"
  /\ IF knowledge_clean # <<>>
     THEN LET r == load_stg_knowledge(stg_knowledge, knowledge_clean)
          IN stg_knowledge' = r.table /\ ret' = r.ret
     ELSE UNCHANGED <<stg_knowledge, ret>>
  /\ UNCHANGED <<runs, prev_store, last_call, s_errors, inputsV, cleanV, skaV>>
  /\ UNCHANGED <<stg_occupation_data, stg_skills, stg_abilities, stg_invalid_ska,
                 stg_level_scale_anchors, stg_scales_reference, dim_scale,
                 dim_major_group, dim_occupation, dim_element, dim_element_scale,
                 fact_occupation_element_rating>>

\* Lines 69-71.
RunStgAbilities ==
  /\ pc = "stg_knowledge"
  /\ pc' = "stg_abilities"
  /\ IF abilities_clean # <<>>
     THEN LET r == load_stg_abilities(stg_abilities, abilities_clean)
          IN stg_abilities' = r.table /\ ret' = r.ret
     ELSE UNCHANGED <<stg_abilities, ret>>
  /\ UNCHANGED <<runs, prev_store, last_call, s_errors, inputsV, cleanV, skaV>>
  /\ UNCHANGED <<stg_occupation_data, stg_skills, stg_knowledge, stg_invalid_ska,
                 stg_level_scale_anchors, stg_scales_reference, dim_scale,
                 dim_major_group, dim_occupation, dim_element, dim_element_scale,
                 fact_occupation_element_rating>>

\* Lines 73-82.
invalid_rows == skills_invalid \o knowledge_invalid \o abilities_invalid

\* Lines 83-85.
RunStgInvalidSka ==
  /\ pc = "stg_abilities"
  /\ pc' = "stg_invalid"
  /\ IF invalid_rows # <<>>
     THEN LET r == load_stg_invalid_ska(stg_invalid_ska, invalid_rows)
          IN stg_invalid_ska' = r.table /\ ret' = r.ret
     ELSE UNCHANGED <<stg_invalid_ska, ret>>
  /\ UNCHANGED <<runs, prev_store, last_call, s_errors, inputsV, cleanV, skaV>>
  /\ UNCHANGED <<stg_occupation_data, stg_skills, stg_knowledge, stg_abilities,
                 stg_level_scale_anchors, stg_scales_reference, dim_scale,
                 dim_major_group, dim_occupation, dim_element, dim_element_scale,
                 fact_occupation_element_rating>>

\* Lines 86-88.
RunStgLevelScaleAnchors ==
  /\ pc = "stg_invalid"
  /\ pc' = "stg_anchors"
  /\ IF anchors # <<>>
     THEN LET r == load_stg_level_scale_anchors(stg_level_scale_anchors, anchors)
          IN stg_level_scale_anchors' = r.table /\ ret' = r.ret
     ELSE UNCHANGED <<stg_level_scale_anchors, ret>>
  /\ UNCHANGED <<runs, prev_store, last_call, s_errors, inputsV, cleanV, skaV>>
  /\ UNCHANGED <<stg_occupation_data, stg_skills, stg_knowledge, stg_abilities,
                 stg_invalid_ska, stg_scales_reference, dim_scale, dim_major_group,
                 dim_occupation, dim_element, dim_element_scale,
                 fact_occupation_element_rating>>

\* Lines 89-91.
RunStgScalesReference ==
  /\ pc = "stg_anchors"
  /\ pc' = "stg_scales"
  /\ IF scales_ref # <<>>
     THEN LET r == load_stg_scales_reference(stg_scales_reference, scales_ref)
          IN stg_scales_reference' = r.table /\ ret' = r.ret
     ELSE UNCHANGED <<stg_scales_reference, ret>>
  /\ UNCHANGED <<runs, prev_store, last_call, s_errors, inputsV, cleanV, skaV>>
  /\ UNCHANGED <<stg_occupation_data, stg_skills, stg_knowledge, stg_abilities,
                 stg_invalid_ska, stg_level_scale_anchors, dim_scale, dim_major_group,
                 dim_occupation, dim_element, dim_element_scale,
                 fact_occupation_element_rating>>

\* Lines 92-93, under the same test of scales_ref.
RunDimScale ==
  /\ pc = "stg_scales"
  /\ pc' = "dim_scale"
  /\ IF scales_ref # <<>>
     THEN LET r == load_dim_scale_from_staging(stg_scales_reference)
          IN dim_scale' = r.table /\ ret' = r.ret
     ELSE UNCHANGED <<dim_scale, ret>>
  /\ UNCHANGED <<runs, prev_store, last_call, s_errors, inputsV, cleanV, skaV>>
  /\ UNCHANGED <<stg_occupation_data, stg_skills, stg_knowledge, stg_abilities,
                 stg_invalid_ska, stg_level_scale_anchors, stg_scales_reference,
                 dim_major_group, dim_occupation, dim_element, dim_element_scale,
                 fact_occupation_element_rating>>

\* The SOC shape test of the validators: LIKE '__-____.__'.
LikeSoc(code) == Len(code) = 10 /\ code[3] = "-" /\ code[8] = "."

\* The errors of validate_staging; the row counts of its summary are left out.
validate_staging(sk, kn, ab) ==
  LET Errors(name, t) ==
        (IF \E r \in Range(t) : \/ r.onetsoc_code = Unavailable
                                \/ r.element_id = Unavailable
                                \/ r.scale_id = Unavailable
         THEN {<<name, "unavailable in key columns">>} ELSE {})
        \cup (IF \E r \in Range(t) : ~LikeSoc(r.onetsoc_code)
              THEN {<<name, "invalid SOC format">>} ELSE {})
  IN Errors("stg_skills", sk) \cup Errors("stg_knowledge", kn)
     \cup Errors("stg_abilities", ab)

\* The errors of validate_postload over a store.  run() has no call of it.
validate_postload(d_occ, sk, kn, ab, fact, d_elem) ==
  LET Key(r) == <<r.onetsoc_code, r.element_id, r.scale_id>>
      Grain(f) == <<f.occupation_id, f.element_id, f.scale_id>>
      Staging(name, t) ==
        (IF \E r \in Range(t) : \/ r.onetsoc_code = Unavailable
                                \/ r.element_id = Unavailable
                                \/ r.scale_id = Unavailable
         THEN {<<name, "unavailable in key columns">>} ELSE {})
        \cup (IF \E r \in Range(t) : ~LikeSoc(r.onetsoc_code)
              THEN {<<name, "invalid SOC format">>} ELSE {})
        \cup (IF \E i, j \in 1..Len(t) : i # j /\ Key(t[i]) = Key(t[j])
              THEN {<<name, "duplicate rows">>} ELSE {})
  IN (IF \E i, j \in 1..Len(d_occ) : i # j /\ d_occ[i].onetsoc_code = d_occ[j].onetsoc_code
      THEN {<<"dim_occupation", "duplicate onetsoc_code">>} ELSE {})
     \cup (IF \E o \in Range(d_occ) : o.onetsoc_code = None \/ o.title = None
           THEN {<<"dim_occupation", "null required fields">>} ELSE {})
     \cup Staging("stg_skills", sk) \cup Staging("stg_knowledge", kn)
     \cup Staging("stg_abilities", ab)
     \cup (IF Len(fact) # Cardinality({Grain(f) : f \in Range(fact)})
           THEN {<<"fact", "grain is not unique">>} ELSE {})
     \cup (IF \E f \in Range(fact) : \A e \in Range(d_elem) : e.element_id # f.element_id
           THEN {<<"fact", "element_ids not present in dim_element">>} ELSE {})

\* Lines 95-103: the findings are printed and the run goes on.
RunValidateStaging ==
  /\ pc = "dim_scale"
  /\ pc' = "validated"
  /\ s_errors' = validate_staging(stg_skills, stg_knowledge, stg_abilities)
  /\ UNCHANGED <<runs, ret, prev_store, last_call, inputsV, cleanV, stgV, dimV, skaV>>

\* Lines 104-106.
RunDimMajorGroup ==
  /\ pc = "validated"
  /\ pc' = "dim_major_group"
  /\ IF mg_csv.exists
     THEN LET r == load_dim_major_group(dim_major_group, mg_csv)
          IN dim_major_group' = r.table /\ ret' = r.ret
     ELSE UNCHANGED <<dim_major_group, ret>>
  /\ UNCHANGED <<runs, prev_store, last_call, s_errors, inputsV, cleanV, skaV>>
  /\ UNCHANGED <<stg_occupation_data, stg_skills, stg_knowledge, stg_abilities,
                 stg_invalid_ska, stg_level_scale_anchors, stg_scales_reference,
                 dim_scale, dim_occupation, dim_element, dim_element_scale,
                 fact_occupation_element_rating>>

\* Lines 107-108.
RunDimOccupation ==
  /\ pc = "dim_major_group"
  /\ pc' = "dim_occupation"
  /\ IF TRUE
     THEN LET r == load_dim_occupation(dim_occupation, records)
          IN dim_occupation' = r.table /\ ret' = r.ret
     ELSE UNCHANGED <<dim_occupation, ret>>
  /\ UNCHANGED <<runs, prev_store, last_call, s_errors, inputsV, cleanV, skaV>>
  /\ UNCHANGED <<stg_occupation_data, stg_skills, stg_knowledge, stg_abilities,
                 stg_invalid_ska, stg_level_scale_anchors, stg_scales_reference,
                 dim_scale, dim_major_group, dim_element, dim_element_scale,
                 fact_occupation_element_rating>>

\* Lines 109-110.
RunDimElement ==
  /\ pc = "dim_occupation"
  /\ pc' = "dim_element"
  /\ IF TRUE
     THEN LET r == load_dim_element(dim_element, stg_skills, stg_knowledge, stg_abilities)
          IN dim_element' = r.table /\ ret' = r.ret
     ELSE UNCHANGED <<dim_element, ret>>
  /\ UNCHANGED <<runs, prev_store, last_call, s_errors, inputsV, cleanV, skaV>>
  /\ UNCHANGED <<stg_occupation_data, stg_skills, stg_knowledge, stg_abilities,
                 stg_invalid_ska, stg_level_scale_anchors, stg_scales_reference,
                 dim_scale, dim_major_group, dim_occupation, dim_element_scale,
                 fact_occupation_element_rating>>

\* Lines 111-113.
RunDimElementScaleAnchor ==
  /\ pc = "dim_element"
  /\ pc' = "dim_anchors"
  /\ IF anchors # <<>>
     THEN LET r == load_dim_element_scale_anchor(dim_element_scale, stg_level_scale_anchors,
                                                  dim_element, dim_scale)
          IN dim_element_scale' = r.table /\ ret' = r.ret
     ELSE UNCHANGED <<dim_element_scale, ret>>
  /\ UNCHANGED <<runs, prev_store, last_call, s_errors, inputsV, cleanV, skaV>>
  /\ UNCHANGED <<stg_occupation_data, stg_skills, stg_knowledge, stg_abilities,
                 stg_invalid_ska, stg_level_scale_anchors, stg_scales_reference,
                 dim_scale, dim_major_group, dim_occupation, dim_element,
                 fact_occupation_element_rating>>

\* Lines 114-115.
RunFact ==
  /\ pc = "dim_anchors"
  /\ pc' = "fact"
  /\ IF TRUE
     THEN LET r == load_fact_occupation_element_rating(fact_occupation_element_rating,
                                                        stg_skills, stg_knowledge,
                                                        stg_abilities, dim_occupation)
          IN fact_occupation_element_rating' = r.table /\ ret' = r.ret
     ELSE UNCHANGED <<fact_occupation_element_rating, ret>>
  /\ UNCHANGED <<runs, prev_store, last_call, s_errors, inputsV, cleanV, skaV>>
  /\ UNCHANGED <<stg_occupation_data, stg_skills, stg_knowledge, stg_abilities,
                 stg_invalid_ska, stg_level_scale_anchors, stg_scales_reference,
                 dim_scale, dim_major_group, dim_occupation, dim_element,
                 dim_element_scale>>

\* Line 117: the connection block ends, the transaction is committed.
Finish ==
  /\ pc = "fact"
  /\ pc' = "done"
  /\ UNCHANGED <<runs, ret, prev_store, last_call, s_errors, inputsV, cleanV, stgV, dimV,
                 skaV>>

Next ==
  \/ Extract
  \/ LoseOccupationSource
  \/ Transform
  \/ InitDb
  \/ RunStgOccupation
  \/ RunStgSkills
  \/ RunStgKnowledge
  \/ RunStgAbilities
  \/ RunStgInvalidSka
  \/ RunStgLevelScaleAnchors
  \/ RunStgScalesReference
  \/ RunDimScale
  \/ RunValidateStaging
  \/ RunDimMajorGroup
  \/ RunDimOccupation
  \/ RunDimElement
  \/ RunDimElementScaleAnchor
  \/ RunFact
  \/ Finish

Spec == Init /\ [][Next]_vars

\* Runs over a raw directory in which each of the six dump files and the
\* lookup file is there or not; run() goes from one statement to the next
\* until it returns or raises.
InitSources ==
  /\ pc = "idle"
  /\ \E oc \in {AbsentFile,
                 File(<< [onetsoc_code |-> PaddedSOC1, title |-> <<"A">>,
                          description |-> <<>>] >>)},
        sk \in {AbsentFile,
                 File(<< [onetsoc_code |-> SOC1, element_id |-> E1, scale_id |-> IM,
                          data_value |-> <<"2">>, lower_ci_bound |-> None,
                          upper_ci_bound |-> None] >>)},
        kn \in {AbsentFile,
                 File(<< [onetsoc_code |-> <<>>, element_id |-> E1, scale_id |-> IM,
                          data_value |-> <<"2">>, lower_ci_bound |-> None,
                          upper_ci_bound |-> None] >>)},
        ab \in {AbsentFile,
                 File(<< [onetsoc_code |-> SOC1, element_id |-> E2, scale_id |-> LV,
                          data_value |-> <<"1">>, lower_ci_bound |-> None,
                          upper_ci_bound |-> None] >>)},
        an \in {AbsentFile,
                 File(<< [element_id |-> E1, scale_id |-> LV, anchor_value |-> <<"1">>,
                          anchor_description |-> <<"x">>] >>)},
        sr \in {AbsentFile,
                 File(<< [scale_id |-> LV, scale_name |-> <<"L">>, minimum |-> 0,
                          maximum |-> 7] >>)} :
       sources = [occupation |-> oc, skills |-> sk, knowledge |-> kn,
                  abilities |-> ab, level_scale_anchors |-> an,
                  scales_reference |-> sr]
  /\ raw_records = <<>> /\ skills = <<>> /\ knowledge = <<>> /\ abilities = <<>>
  /\ scales_ref = <<>> /\ anchors = <<>>
  /\ mg_csv \in RunMajorGroupFiles
  /\ NothingCleaned /\ EmptyStore /\ NoSka /\ NoControl

SpecSources == InitSources /\ [][Next]_vars /\ WF_vars(Next)

----------------------------------------------------------------------------
(* Claims about the loaders and promoters                                  *)

StagedOccupations(recs) == [i \in 1..Len(recs) |-> StagedOccupation(recs[i])]

StagedRatings(recs) == [i \in 1..Len(recs) |-> StagedRating(recs[i])]

\* C7: after a call of a staging loader its table holds exactly the records
\* given, nothing of what it held before, and the call returns their number.
C7_LoadersReplace ==
  /\ last_call.fn = "load_stg_occupation" =>
       /\ stg_occupation_data = StagedOccupations(last_call.records)
       /\ ret = Len(last_call.records)
  /\ last_call.fn = "load_stg_skills" =>
       /\ stg_skills = StagedRatings(last_call.records)
       /\ ret = Len(last_call.records)
  /\ last_call.fn = "load_stg_knowledge" =>
       /\ stg_knowledge = StagedRatings(last_call.records)
       /\ ret = Len(last_call.records)
  /\ last_call.fn = "load_stg_abilities" =>
       /\ stg_abilities = StagedRatings(last_call.records)
       /\ ret = Len(last_call.records)
  /\ last_call.fn = "load_stg_level_scale_anchors" =>
       /\ stg_level_scale_anchors = last_call.records
       /\ ret = Len(last_call.records)
  /\ last_call.fn = "load_stg_scales_reference" =>
       /\ stg_scales_reference = last_call.records
       /\ ret = Len(last_call.records)
  /\ last_call.fn = "load_stg_invalid_ska" =>
       /\ stg_invalid_ska = last_call.records
       /\ ret = Len(last_call.records)

FactGrain(f) == <<f.occupation_id, f.element_id, f.scale_id>>

\* C8: the fact table has as many rows as it has distinct
\* (occupation_id, element_id, scale_id) triples.
C8_FactGrainUnique ==
  Len(fact_occupation_element_rating)
    = Cardinality({FactGrain(f) : f \in Range(fact_occupation_element_rating)})

\* The staged rating s is promoted to the fact row f.
PromotedAs(s, f) ==
  /\ f.element_id = s.element_id
  /\ f.scale_id = s.scale_id
  /\ \E o \in Range(dim_occupation) :
       o.onetsoc_code = s.onetsoc_code /\ o.occupation_id = f.occupation_id

\* A fact promotion has just run over a skills table that stages one key
\* twice and a knowledge table that stages the same key, and the key is in
\* the fact table.
C8_Witness ==
  /\ last_call.fn = "load_fact_occupation_element_rating"
  /\ \E i, j \in 1..Len(stg_skills) :
       /\ i < j
       /\ RatingKey(stg_skills[i]) = RatingKey(stg_skills[j])
       /\ \E k \in Range(stg_knowledge) : RatingKey(k) = RatingKey(stg_skills[i])
       /\ \E f \in Range(fact_occupation_element_rating) : PromotedAs(stg_skills[i], f)

AnchorKey(a) == <<a.element_id, a.scale_id, a.anchor_value>>

\* Both dimensions hold what the anchor refers to.
GateOpen(a) ==
  /\ \E e \in Range(dim_element) : e.element_id = a.element_id
  /\ \E sc \in Range(dim_scale) : sc.scale_id = a.scale_id

\* C9: a step that changes dim_element_scale deletes no row and changes no
\* key; a row it adds or changes is a staged anchor whose element_id is in
\* dim_element and whose scale_id is in dim_scale as the step starts; and a
\* row it changes differs in anchor_description only.
C9_AnchorGate ==
  [][ dim_element_scale' # dim_element_scale =>
        /\ Len(dim_element_scale') >= Len(dim_element_scale)
        /\ \A i \in 1..Len(dim_element_scale') :
             LET new == dim_element_scale'[i]
                 Staged == \E a \in Range(stg_level_scale_anchors) :
                              /\ AnchorKey(a) = AnchorKey(new)
                              /\ a.anchor_description = new.anchor_description
             IN IF i <= Len(dim_element_scale)
                THEN /\ AnchorKey(new) = AnchorKey(dim_element_scale[i])
                     /\ new # dim_element_scale[i] => (GateOpen(new) /\ Staged)
                ELSE GateOpen(new) /\ Staged ]_vars

\* An anchor promotion has just run, it promoted an anchor, and it left out
\* a staged anchor whose element is in no row of dim_element.
C9_Witness ==
  /\ last_call.fn = "load_dim_element_scale_anchor"
  /\ dim_element_scale # <<>>
  /\ \E a \in Range(stg_level_scale_anchors) :
       /\ \A e \in Range(dim_element) : e.element_id # a.element_id
       /\ \A d \in Range(dim_element_scale) : AnchorKey(d) # AnchorKey(a)

----------------------------------------------------------------------------
(* Claims about the run                                                    *)

AllowedKey(code, elem, scale) ==
  /\ is_valid_soc(code)
  /\ elem # None /\ elem # <<>>
  /\ scale \in {IM, LV}

\* C2: in every state of a run, every row of stg_skills, stg_knowledge and
\* stg_abilities has a SOC-shaped occupation code, a non-empty element_id and
\* a scale_id of IM or LV, and so has every fact row, whose occupation code
\* is that of the dim_occupation row with its occupation_id.
C2_OnlyValidRowsPromoted ==
  /\ \A r \in Range(stg_skills) \cup Range(stg_knowledge) \cup Range(stg_abilities) :
       AllowedKey(r.onetsoc_code, r.element_id, r.scale_id)
  /\ \A f \in Range(fact_occupation_element_rating) :
       \E o \in Range(dim_occupation) :
         /\ o.occupation_id = f.occupation_id
         /\ AllowedKey(o.onetsoc_code, f.element_id, f.scale_id)

\* A finished run whose skills source had a row that went to invalid and a
\* row that went to staging and on to the fact table.
C2_Witness ==
  /\ pc = "done"
  /\ skills_invalid # <<>>
  /\ stg_skills # <<>>
  /\ fact_occupation_element_rating # <<>>

Failing(rows) == SelectSeq(rows, LAMBDA r : FirstFailingCheck(r) # "ok")

Tagged(tag) == SelectSeq(stg_invalid_ska, LAMBDA r : r.domain = tag)

\* The diagnostics rows with one domain tag are the failing raw rows of that
\* domain, one for one, each with an error reason.
Diagnosed(rows, tag) ==
  /\ Len(Tagged(tag)) = Len(Failing(rows))
  /\ \A k \in 1..Len(Tagged(tag)) :
       /\ Tagged(tag)[k].onetsoc_code = Failing(rows)[k].onetsoc_code
       /\ Tagged(tag)[k].element_id = Failing(rows)[k].element_id
       /\ Tagged(tag)[k].scale_id = Failing(rows)[k].scale_id
       /\ Tagged(tag)[k].data_value = Failing(rows)[k].data_value
       /\ Tagged(tag)[k].error_reason
            \in {"missing_onetsoc_code", "invalid_soc_format", "missing_element_id",
                 "invalid_scale_id", "cleaning_failed"}

\* C3: once the sources are split, valid and invalid of each domain add up
\* to the raw rows of the domain; and when the run is done stg_invalid_ska
\* holds one row for each failing raw row of the three domains, under the
\* domain's uppercase tag and with an error reason, and no other row.
C3_EveryRowAccounted ==
  /\ pc \notin {"idle", "extracted"} =>
       /\ Len(skills_clean) + Len(skills_invalid) = Len(skills)
       /\ Len(knowledge_clean) + Len(knowledge_invalid) = Len(knowledge)
       /\ Len(abilities_clean) + Len(abilities_invalid) = Len(abilities)
  /\ pc = "done" =>
       /\ Diagnosed(skills, "SKILL")
       /\ Diagnosed(knowledge, "KNOWLEDGE")
       /\ Diagnosed(abilities, "ABILITY")
       /\ Len(stg_invalid_ska)
            = Len(Failing(skills)) + Len(Failing(knowledge)) + Len(Failing(abilities))

\* A finished run in which two domains each had a failing row.
C3_Witness ==
  /\ pc = "done"
  /\ Failing(skills) # <<>>
  /\ Failing(abilities) # <<>>
  /\ Len(stg_invalid_ska) = 2

\* C10: the second run on the same sources ends in the store the first run
\* ended in, and the store is empty after the reset at the start of a run.
C10_RunIdempotent ==
  /\ (pc = "done" /\ runs = 2) => Store = prev_store
  /\ pc = "db_ready" => EmptyStore

\* The second run is done and left rows in staging, diagnostics, the
\* dimensions and the fact table.
C10_Witness ==
  /\ pc = "done" /\ runs = 2
  /\ stg_invalid_ska # <<>>
  /\ dim_occupation # <<>>
  /\ dim_element # <<>>
  /\ fact_occupation_element_rating # <<>>

----------------------------------------------------------------------------
(* Claims about the cleaner behind the splitter                            *)

\* C20: no row of the splitter's invalid output has the reason
\* cleaning_failed, since for every raw row that passes the four checks
\* clean_ska_records gives exactly one record.
C20_CleaningNeverFails ==
  pc = "split" =>
    /\ \A k \in 1..Len(ska_invalid) : ska_invalid[k].error_reason # "cleaning_failed"
    /\ \A k \in 1..Len(ska_records) :
         ska_check(ska_records[k]) = "ok" =>
           Len(clean_ska_records(<<ska_records[k]>>, ska_domain)) = 1

\* A split input one of whose rows passes the checks only after its scale
\* is trimmed and upper-cased and its code and element are trimmed.
C20_Witness ==
  /\ pc = "split"
  /\ \E k \in 1..Len(ska_records) :
       /\ ska_check(ska_records[k]) = "ok"
       /\ ska_records[k].scale_id = <<" ", "l", "v">>
       /\ ska_records[k].onetsoc_code = PaddedSOC1
       /\ ska_records[k].element_id = <<"e", "1", " ">>
  /\ ska_valid # <<>>

----------------------------------------------------------------------------
(* Claims about the derived major group                                    *)

\* The code starts with two digits followed by "-".
HasTwoDigitLead(code) ==
  /\ Len(code) >= 3
  /\ code[1] \in Digits /\ code[2] \in Digits
  /\ code[3] = "-"

\* C17: in every record clean_occupation_records gives, major_group_code is
\* the first two characters of the code when the code starts with two
\* digits and a "-", and the sentinel "unavailable" for every other code.
C17_MajorGroupCode ==
  pc = "cleaned" =>
    \A r \in Range(records) :
      r.major_group_code
        = IF HasTwoDigitLead(r.onetsoc_code) THEN SubSeq(r.onetsoc_code, 1, 2)
          ELSE Unavailable

----------------------------------------------------------------------------
(* Claims about the promotion steps on their own                           *)

\* C11: right after a promotion step, with staging as it is, the same step
\* applied once more (with the same records or lookup file where it takes
\* one) gives the table the step has just left: no row is added, no column
\* changes, every occupation keeps its occupation_id.
C11_PromotionIdempotent ==
  /\ last_call.fn = "load_dim_scale_from_staging" =>
       load_dim_scale_from_staging(stg_scales_reference).table = dim_scale
  /\ last_call.fn = "load_dim_major_group" =>
       load_dim_major_group(dim_major_group, last_call.records).table = dim_major_group
  /\ last_call.fn = "load_dim_occupation" =>
       load_dim_occupation(dim_occupation, last_call.records).table = dim_occupation
  /\ last_call.fn = "load_dim_element" =>
       load_dim_element(dim_element, stg_skills, stg_knowledge, stg_abilities).table
         = dim_element
  /\ last_call.fn = "load_dim_element_scale_anchor" =>
       load_dim_element_scale_anchor(dim_element_scale, stg_level_scale_anchors,
                                     dim_element, dim_scale).table
         = dim_element_scale
  /\ last_call.fn = "load_fact_occupation_element_rating" =>
       load_fact_occupation_element_rating(fact_occupation_element_rating, stg_skills,
                                           stg_knowledge, stg_abilities,
                                           dim_occupation).table
         = fact_occupation_element_rating

\* The fact promotion has just run over a key that two staged ratings share,
\* and every dimension holds a row.
C11_Witness ==
  /\ last_call.fn = "load_fact_occupation_element_rating"
  /\ fact_occupation_element_rating # <<>>
  /\ Len(fact_occupation_element_rating)
       < Len(stg_skills) + Len(stg_knowledge) + Len(stg_abilities)
  /\ dim_scale # <<>> /\ dim_major_group # <<>> /\ dim_element # <<>>
  /\ dim_element_scale # <<>>

----------------------------------------------------------------------------
(* Claims about the order of the steps of a run                            *)

\* The positions of a run at which the staging validator has been called.
AfterStagingValidation ==
  {"validated", "dim_major_group", "dim_occupation", "dim_element", "dim_anchors",
   "fact", "done"}

\* C12: in a run every step that writes a dimension or the fact table, the
\* reset of init_db aside, comes after the call of the staging validator,
\* and the step that ends the run is a validation of the final state, made
\* once the fact table is promoted.
C12_StepOrder ==
  [][ /\ (pc # "transformed" /\ dimV' # dimV) => pc \in AfterStagingValidation
      /\ pc' = "done" => pc = "postload_validated" ]_vars

----------------------------------------------------------------------------
(* Claims about missing source files                                       *)

\* The locals of run() that hold the rows of the five optional sources.
ExtractedFrom(domain) ==
  CASE domain = "skills" -> skills
    [] domain = "knowledge" -> knowledge
    [] domain = "abilities" -> abilities
    [] domain = "level_scale_anchors" -> anchors
    [] domain = "scales_reference" -> scales_ref

OptionalDomains ==
  {"skills", "knowledge", "abilities", "level_scale_anchors", "scales_reference"}

\* C13: the extraction of a run ends the run with an error exactly when the
\* occupation file is missing; the failed run leaves the store as it was
\* before the run; a missing file of another domain gives that domain no
\* rows; and a run that got past extraction is completed, whichever of the
\* other files and of the lookup file are missing.
C13_MissingSources ==
  /\ [][ (pc \in {"idle", "done"} /\ pc' # pc) =>
           (pc' = "failed" <=> ~sources.occupation.exists) ]_vars
  /\ [](pc = "failed" => Store = prev_store)
  /\ [](pc = "extracted" =>
          \A d \in OptionalDomains : ~sources[d].exists => ExtractedFrom(d) = <<>>)
  /\ (pc = "extracted") ~> (pc = "done")

\* The second run failed on the missing occupation file over a store the
\* first run had filled although the skills file and the lookup file were
\* missing.
C13_Witness ==
  /\ pc = "failed" /\ runs = 2
  /\ ~sources.skills.exists /\ ~mg_csv.exists
  /\ dim_occupation # <<>>
  /\ fact_occupation_element_rating # <<>>

----------------------------------------------------------------------------
(* Claims about what the promotion steps of a run put in the store         *)

AllStagedRatings == Range(stg_skills) \cup Range(stg_knowledge) \cup Range(stg_abilities)

\* The keys of the staged ratings that have an occupation, under its id.
JoinedKeys ==
  {<<p[1].occupation_id, p[2].element_id, p[2].scale_id>> :
     p \in {q \in Range(dim_occupation) \X AllStagedRatings :
              q[1].onetsoc_code = q[2].onetsoc_code}}

\* C14: once the fact promotion of a run has run (on the fact table the
\* reset left empty), the keys of the fact rows are the keys of the staged
\* ratings whose code is that of a dim_occupation row, under that row's
\* occupation_id, and no others; and stg_invalid_ska holds the rows the
\* splitter gave as invalid and nothing for a rating without occupation.
C14_FactIsInnerJoin ==
  pc \in {"fact", "done"} =>
    /\ {FactGrain(f) : f \in Range(fact_occupation_element_rating)} = JoinedKeys
    /\ stg_invalid_ska = invalid_rows

\* The fact promotion has just run, it promoted a rating, and it left out a
\* staged rating whose code no occupation has; no diagnostics row exists.
C14_Witness ==
  /\ pc = "fact"
  /\ fact_occupation_element_rating # <<>>
  /\ \E r \in AllStagedRatings :
       \A o \in Range(dim_occupation) : o.onetsoc_code # r.onetsoc_code
  /\ stg_invalid_ska = <<>>

\* The staged reference rows with one scale id.
ReferenceRows(id) == {r \in Range(stg_scales_reference) : r.scale_id = id}

\* C15: right after load_dim_scale_from_staging, dim_scale has exactly one
\* row for each of IM and LV that the staged reference holds, with the
\* least minimum and the greatest maximum of all staged rows of that scale
\* id, and no row of any other scale id.
C15_OneRowPerAllowedScale ==
  last_call.fn = "load_dim_scale_from_staging" =>
    /\ \A d \in Range(dim_scale) :
         d.scale_id \in {IM, LV} /\ ReferenceRows(d.scale_id) # {}
    /\ \A id \in {IM, LV} :
         ReferenceRows(id) # {} =>
           /\ Len(SelectSeq(dim_scale, LAMBDA d : d.scale_id = id)) = 1
           /\ \A d \in Range(dim_scale) :
                d.scale_id = id =>
                  /\ d.min_value = SetMin({r.minimum : r \in ReferenceRows(id)})
                  /\ d.max_value = SetMax({r.maximum : r \in ReferenceRows(id)})

\* The domain tags of the staging tables that hold the element.
StagedDomainsOf(e) ==
  (IF \E r \in Range(stg_skills) : r.element_id = e THEN {"SKILL"} ELSE {})
  \cup (IF \E r \in Range(stg_knowledge) : r.element_id = e THEN {"KNOWLEDGE"} ELSE {})
  \cup (IF \E r \in Range(stg_abilities) : r.element_id = e THEN {"ABILITY"} ELSE {})

StagedElementIds == {r.element_id : r \in AllStagedRatings}

\* dim_element has one row for each staged element id, tagged with a domain
\* that stages the element.
ElementRowsRight ==
  \A e \in StagedElementIds :
    /\ Len(SelectSeq(dim_element, LAMBDA d : d.element_id = e)) = 1
    /\ \A d \in Range(dim_element) : d.element_id = e => d.domain \in StagedDomainsOf(e)

\* The value returned is the number of distinct staged element ids.
ElementCountRight == ret = Cardinality(StagedElementIds)

\* C16: right after load_dim_element, dim_element has exactly one row for
\* each element id of the three rating staging tables, tagged with a domain
\* whose staging table holds the element, and the value returned is the
\* number of distinct element ids in staging.
C16_ElementDimension ==
  last_call.fn = "load_dim_element" => (ElementRowsRight /\ ElementCountRight)

\* The rows of dim_element alone, right after load_dim_element.
ElementRowsAfterLoad ==
  last_call.fn = "load_dim_element" => ElementRowsRight

\* C18: when a run is done, every fact row has the occupation_id of a
\* dim_occupation row and an element_id that dim_element holds, so that
\* validate_postload over the store does not report fact elements missing
\* from dim_element.
C18_FactReferences ==
  pc = "done" =>
    /\ \A f \in Range(fact_occupation_element_rating) :
         /\ \E o \in Range(dim_occupation) : o.occupation_id = f.occupation_id
         /\ \E e \in Range(dim_element) : e.element_id = f.element_id
    /\ <<"fact", "element_ids not present in dim_element">>
         \notin validate_postload(dim_occupation, stg_skills, stg_knowledge,
                                  stg_abilities, fact_occupation_element_rating,
                                  dim_element)

\* A finished run whose fact table has rows of two elements, one of them
\* staged by the knowledge or the abilities source only.
C18_Witness ==
  /\ pc = "done"
  /\ \E f, g \in Range(fact_occupation_element_rating) :
       /\ f.element_id # g.element_id
       /\ \A r \in Range(stg_skills) : r.element_id # g.element_id

----------------------------------------------------------------------------
(* Claims about ratings that share a fact key                              *)

\* The rows of a staging table that are promoted to the fact row f.
StagedFor(table, f) == {r \in Range(table) : PromotedAs(r, f)}

\* The rows of the domain promoted last among the domains that stage f.
LastStagedFor(f) ==
  IF StagedFor(stg_abilities, f) # {} THEN StagedFor(stg_abilities, f)
  ELSE IF StagedFor(stg_knowledge, f) # {} THEN StagedFor(stg_knowledge, f)
  ELSE StagedFor(stg_skills, f)

\* C19: right after the fact promotion, a key staged by several domains, or
\* several times by one domain, has one fact row, and the values of that
\* row are the values of one staged row of the last of its domains in the
\* order skills, knowledge, abilities.
C19_LastDomainWins ==
  last_call.fn = "load_fact_occupation_element_rating" =>
    \A f \in Range(fact_occupation_element_rating) :
      LastStagedFor(f) # {} =>
        /\ \E r \in LastStagedFor(f) :
             /\ f.data_value = r.data_value
             /\ f.lower_ci_bound = r.lower_ci_bound
             /\ f.upper_ci_bound = r.upper_ci_bound
        /\ \A g \in Range(fact_occupation_element_rating) :
             FactGrain(g) = FactGrain(f) => g = f

\* The fact promotion has just run over a key that skills and abilities
\* stage with different values (or skills and knowledge), and the key has a
\* fact row.
C19_Witness ==
  /\ last_call.fn = "load_fact_occupation_element_rating"
  /\ \E f \in Range(fact_occupation_element_rating) :
       \E r \in StagedFor(stg_skills, f) :
         \E q \in StagedFor(stg_knowledge, f) \cup StagedFor(stg_abilities, f) :
           q.data_value # r.data_value

====
